---- MODULE Spec2Model ----
(***************************************************************************)
(* ClaudeGUI: the main-process session supervision (ClaudeProcessManager,  *)
(* ClaudeProcess: line framing, input_json_delta batching, envelopes) and  *)
(* the renderer-side conversation reducer of App.tsx (handleStreamEvent,   *)
(* the per-session maps, the QuantumStreamRenderer callbacks and           *)
(* handleSelectSession).                                                   *)
(*                                                                         *)
(* Strings that the code concatenates or slices are sequences of one-      *)
(* character strings.  A JSON text on stdout is one token of kind "json"   *)
(* (or two half tokens for a record split in the middle); every other      *)
(* character is a token of kind "char".                                    *)
(***************************************************************************)
EXTENDS Integers, Sequences, FiniteSets, TLC

VARIABLES
  \* ---- main process (claude-process-manager.ts, claude-process.ts) ----
  processes,      \* ClaudeProcessManager.processes: session id -> instance number, 0 = no entry
  instances,      \* every ClaudeProcess object constructed so far (evicted ones still own timers)
  os,             \* every subprocess spawned so far
  cliInstalled,   \* whether findClaudeCli() finds the executable
  immediateQ,     \* callbacks queued by setImmediate in sendToRenderer, FIFO
  channel,        \* envelopes handed to webContents.send('claude:stream'), in order
  events,         \* number of registry calls, stdout chunks and heartbeat ticks so far
  lastOp,         \* the registry call made by the last step, NoOp for other steps (history)
  \* ---- renderer (App.tsx) ----
  ui,                     \* React state of App and the refs currentMessageIdRef, currentBlockIndexRef
  refs,                   \* the per-session ref maps, by session id
  nextId,                 \* number of ids that generateId() has made for messages
  sessionSwitchLockRef,
  sessionSwitchQueueRef,
  calls,                  \* the calls of handleSelectSession that are waiting at an await
  timeouts,               \* the callbacks queued by setTimeout(..., 0) in handleSelectSession
  sessions,               \* React state sessions: the stored totalCost of each session, as last loaded
  store,                  \* the sessions file of the main process and the 'sessions:save' calls in flight
  cli,                    \* how many envelopes of its turn each session has delivered
  hist                    \* history of the renderer: counters and what the events asked for

procVars == <<processes, instances, os, cliInstalled, immediateQ, channel,
              events, lastOp>>

appVars == <<ui, refs, nextId, sessionSwitchLockRef, sessionSwitchQueueRef, calls,
             timeouts, sessions, store, cli, hist>>

vars == <<procVars, appVars>>

(***************************************************************************)
(* Bounds of the model.                                                    *)
(***************************************************************************)
MaxEvents == 4      \* registry calls, stdout chunks and heartbeat ticks in one run
MaxStream == 4      \* characters of the stdout stream that the framer is run on
MaxHandled == 6     \* envelopes handled by the renderer in one run
MaxRequests == 2    \* calls of handleSelectSession by the user in one run
MaxIds == 2         \* different strings that generateId() may return in SpecTurns
MaxTurnEvents == 4  \* envelopes handled in one run of SpecTurns
MidTurn == 3        \* envelopes of each turn handled before a run of SpecMid
MaxQsrData == 4     \* characters that one QuantumStreamRenderer receives
MaxSaveEvents == 4  \* envelopes handled in one run of SpecSave
MaxDepth == 2       \* segments of a requested working directory
MaxSpawns == 2      \* subprocesses spawned in one run of SpecCwd

\* every subprocess and every ClaudeProcess object is made by a start call
Pids == 1..MaxEvents
InstNos == 1..MaxEvents

SessionIds == {"A", "B"}

Range(s) == {s[i] : i \in 1..Len(s)}

(***************************************************************************)
(* Tokens of a stdout stream and parsed events.                            *)
(***************************************************************************)
NoIndex == 0 - 1

Tok(k, type, inner, index, dtype, pj) ==
  [k |-> k, type |-> type, inner |-> inner, index |-> index, dtype |-> dtype, pj |-> pj]

Ch(c) == Tok("char", c, "", NoIndex, "", <<>>)
NL == Ch("\n")
CR == Ch("\r")
SP == Ch(" ")

Min(S) == CHOOSE x \in S : \A y \in S : x <= y
Max(S) == CHOOSE x \in S : \A y \in S : x >= y
NoEvent == Tok("none", "", "", NoIndex, "", <<>>)

\* {"type":"stream_event","event":{"type":"content_block_delta","index":i,
\*   "delta":{"type":"input_json_delta","partial_json":f}}}
JsonDelta(i, f) == Tok("json", "stream_event", "content_block_delta", i, "input_json_delta", f)
\* a content_block_delta carrying a text_delta
TextDelta(i) == Tok("json", "stream_event", "content_block_delta", i, "text_delta", <<>>)
BlockStart(i) == Tok("json", "stream_event", "content_block_start", i, "", <<>>)
BlockStop(i) == Tok("json", "stream_event", "content_block_stop", i, "", <<>>)
ResultEvent == Tok("json", "result", "", NoIndex, "", <<>>)

IsWhite(t) == t.k = "char" /\ t.type \in {" ", "\r", "\n", "\t"}

RECURSIVE TrimLeft(_)
TrimLeft(s) == IF s # <<>> /\ IsWhite(Head(s)) THEN TrimLeft(Tail(s)) ELSE s

RECURSIVE TrimRight(_)
TrimRight(s) ==
  IF s # <<>> /\ IsWhite(s[Len(s)]) THEN TrimRight(SubSeq(s, 1, Len(s) - 1)) ELSE s

\* String.prototype.trim
Trim(s) == TrimRight(TrimLeft(s))

\* the two halves of a JSON text that a chunk boundary may separate
HeadOf(e) == [e EXCEPT !.k = "head"]
TailOf(e) == [e EXCEPT !.k = "tail"]

\* JSON.parse(line): the text is one complete JSON value, white space around it allowed
JsonParses(line) ==
  LET t == Trim(line) IN
    \/ Len(t) = 1 /\ t[1].k = "json"
    \/ Len(t) = 2 /\ t[1].k = "head" /\ t[2] = TailOf(t[1])
JsonParse(line) == [Trim(line)[1] EXCEPT !.k = "json"]

(***************************************************************************)
(* Envelopes on the 'claude:stream' channel.  Three fields are history:    *)
(* lines, the stdout line numbers (per ClaudeProcess object) whose content *)
(* the envelope carries; flush, the number of the flush that built it; obj,*)
(* the object that produced it (0: the registry).                          *)
(***************************************************************************)
Envelope(type, status, error, data, lines) ==
  [type |-> type, sessionId |-> "", status |-> status, error |-> error,
   data |-> data, lines |-> lines, flush |-> 0, obj |-> 0]

(***************************************************************************)
(* Working directories.  A requested cwd is an absolute path, written as   *)
(* the sequence of its segments; a path string is a sequence of characters *)
(* with "/" as the separator.  The home directory is /u; /p stands for the *)
(* other listed roots that do not end with a separator (C:\Users and       *)
(* C:\Projects).                                                           *)
(***************************************************************************)
SegmentNames == {"u", "u2", "U", "p", "x", ".."}

SegmentChars(seg) ==
  CASE seg = "u" -> <<"u">>
    [] seg = "u2" -> <<"u", "2">>
    [] seg = "U" -> <<"U">>
    [] seg = "p" -> <<"p">>
    [] seg = "x" -> <<"x">>
    [] seg = ".." -> <<".", ".">>

\* the segments of path.resolve(cwd): ".." removes the segment before it
RECURSIVE ResolveSegments(_, _)
ResolveSegments(done, rest) ==
  IF rest = <<>> THEN done
  ELSE IF Head(rest) = ".."
  THEN ResolveSegments(IF done = <<>> THEN <<>> ELSE SubSeq(done, 1, Len(done) - 1), Tail(rest))
  ELSE ResolveSegments(Append(done, Head(rest)), Tail(rest))

\* the string of an absolute path
RECURSIVE JoinSegments(_)
JoinSegments(segs) ==
  IF segs = <<>> THEN <<>>
  ELSE <<"/">> \o SegmentChars(Head(segs)) \o JoinSegments(Tail(segs))

PathString(segs) == IF segs = <<>> THEN <<"/">> ELSE JoinSegments(segs)

\* path.resolve(cwd)
PathResolve(cwd) == PathString(ResolveSegments(<<>>, cwd))

\* String.prototype.toLowerCase
ToLowerCase(str) == [k \in 1..Len(str) |-> IF str[k] = "U" THEN "u" ELSE str[k]]

\* String.prototype.startsWith
StartsWith(str, prefix) == Len(prefix) <= Len(str) /\ SubSeq(str, 1, Len(prefix)) = prefix

\* os.homedir()
HomeDir == <<"/", "u">>

\* the safePaths of validateCwd
SafePaths == {HomeDir, <<"/", "p">>}

\* a directory of the user's projects, and null
ProjectDir == <<"u", "x">>
NoCwd == <<>>

\* ClaudeProcess.validateCwd
validateCwd(cwd) ==
  LET resolvedPath == PathResolve(cwd)
      isSafe == \E safePath \in SafePaths :
                  StartsWith(ToLowerCase(resolvedPath), ToLowerCase(safePath))
  IN IF ~isSafe THEN HomeDir ELSE resolvedPath

(***************************************************************************)
(* ClaudeProcess.  A method is an operator on m = [p, q]: p the object's   *)
(* fields, q the setImmediate queue it appends to.                         *)
(***************************************************************************)
NewClaudeProcess(n, sessionId, found) ==
  [n |-> n, sessionId |-> sessionId, process |-> 0, claudePath |-> found,
   currentCwd |-> NoCwd,
   stdoutBuffer |-> <<>>, heartbeatInterval |-> FALSE,
   deltaBuffer |-> <<>>, deltaFlushTimer |-> FALSE, lastDeltaEvent |-> NoEvent,
   stderrOpen |-> FALSE,
   \* history: the lines passed to handleStreamLine, for each the number of
   \* flushes before it, and the number of flushes so far
   lineNo |-> 0, handled |-> <<>>, flushOf |-> <<>>, flushes |-> 0]

\* a faulty sendToRenderer: the sessionId is not added
sendToRenderer_Untagged(m, data) ==
  [m EXCEPT !.q = Append(@, [data EXCEPT !.obj = m.p.n])]

\* ClaudeProcess.sendToRenderer: {...data, sessionId: this.sessionId}, sent by setImmediate
sendToRenderer(m, data) ==
  [m EXCEPT !.q = Append(@, [data EXCEPT !.sessionId = m.p.sessionId, !.obj = m.p.n])]

\* a faulty batched event: the index of the template is kept
BatchedEvent_KeepIndex(last, blockIndex, accumulatedJson) ==
  [last EXCEPT !.dtype = "input_json_delta", !.pj = accumulatedJson]

\* {...lastDeltaEvent, event: {...event, index, delta: {type, partial_json}}}
BatchedEvent(last, blockIndex, accumulatedJson) ==
  [last EXCEPT !.index = blockIndex, !.dtype = "input_json_delta", !.pj = accumulatedJson]

RECURSIVE flushEntries(_, _)
flushEntries(m, entries) ==
  IF entries = <<>> THEN m
  ELSE LET e == Head(entries)
           m2 == IF e.json # <<>> /\ m.p.lastDeltaEvent # NoEvent
                 THEN sendToRenderer(m, [Envelope("stream_event", "", "",
                        BatchedEvent(m.p.lastDeltaEvent, e.index, e.json), e.lines)
                          EXCEPT !.flush = m.p.flushes])
                 ELSE m
       IN flushEntries(m2, Tail(entries))

\* a faulty flushDeltaBuffer: the buffer is not cleared
flushDeltaBuffer_NoClear(m) ==
  IF m.p.deltaBuffer = <<>> THEN m
  ELSE flushEntries([m EXCEPT !.p.flushes = @ + 1], m.p.deltaBuffer)

\* ClaudeProcess.flushDeltaBuffer
flushDeltaBuffer(m) ==
  IF m.p.deltaBuffer = <<>> THEN m
  ELSE [flushEntries([m EXCEPT !.p.flushes = @ + 1], m.p.deltaBuffer)
          EXCEPT !.p.deltaBuffer = <<>>]

\* a faulty ensureDeltaFlushTimer: no interval is set
ensureDeltaFlushTimer_Never(m) == m

\* ClaudeProcess.ensureDeltaFlushTimer
ensureDeltaFlushTimer(m) == [m EXCEPT !.p.deltaFlushTimer = TRUE]

stopDeltaFlushTimer(m) == flushDeltaBuffer([m EXCEPT !.p.deltaFlushTimer = FALSE])

\* a faulty BufferAdd: the new fragment is put in front of the accumulated ones
BufferAdd_Prepend(buf, blockIndex, partialJson, ln) ==
  IF \E i \in 1..Len(buf) : buf[i].index = blockIndex
  THEN [i \in 1..Len(buf) |->
          IF buf[i].index = blockIndex
          THEN [buf[i] EXCEPT !.json = partialJson \o @, !.lines = @ \cup {ln}]
          ELSE buf[i]]
  ELSE Append(buf, [index |-> blockIndex, json |-> partialJson, lines |-> {ln}])

\* Map.get(blockIndex) || '' followed by Map.set: an existing key keeps its place
BufferAdd(buf, blockIndex, partialJson, ln) ==
  IF \E i \in 1..Len(buf) : buf[i].index = blockIndex
  THEN [i \in 1..Len(buf) |->
          IF buf[i].index = blockIndex
          THEN [buf[i] EXCEPT !.json = @ \o partialJson, !.lines = @ \cup {ln}]
          ELSE buf[i]]
  ELSE Append(buf, [index |-> blockIndex, json |-> partialJson, lines |-> {ln}])

Coalesce(index, dflt) == IF index = NoIndex THEN dflt ELSE index

\* a faulty handleStreamLine: a structural event is sent without flushing first
handleStreamLine_NoPreFlush(m, line) ==
  IF Trim(line) = <<>> THEN m
  ELSE
    LET ln == m.p.lineNo
    IN IF ~JsonParses(line) THEN m
       ELSE LET event == JsonParse(line) IN
         IF event.dtype = "input_json_delta"
         THEN ensureDeltaFlushTimer(
                [m EXCEPT !.p.deltaBuffer = BufferAdd(@, Coalesce(event.index, 0), event.pj, ln),
                          !.p.lastDeltaEvent = event])
         ELSE LET m2 == IF event.inner = "content_block_stop" THEN stopDeltaFlushTimer(m) ELSE m
              IN sendToRenderer(m2, Envelope(event.type, "", "", event, {ln}))

\* a faulty handleStreamLine: a line that is not JSON is reported as an error
handleStreamLine_ReportBadLine(m, line) ==
  IF Trim(line) = <<>> THEN m
  ELSE
    LET ln == m.p.lineNo
    IN IF ~JsonParses(line)
       THEN sendToRenderer(m, Envelope("error", "", "not JSON", NoEvent, {ln}))
       ELSE LET event == JsonParse(line) IN
         IF event.dtype = "input_json_delta"
         THEN ensureDeltaFlushTimer(
                [m EXCEPT !.p.deltaBuffer = BufferAdd(@, Coalesce(event.index, 0), event.pj, ln),
                          !.p.lastDeltaEvent = event])
         ELSE LET m1 == IF m.p.deltaBuffer # <<>> THEN flushDeltaBuffer(m) ELSE m
                  m2 == IF event.inner = "content_block_stop" THEN stopDeltaFlushTimer(m1) ELSE m1
              IN sendToRenderer(m2, Envelope(event.type, "", "", event, {ln}))

\* lineNo numbers the calls of handleStreamLine on this object (history)
handleStreamLine(m, line) ==
  IF Trim(line) = <<>> THEN m
  ELSE
    LET ln == m.p.lineNo
    IN IF ~JsonParses(line) THEN m
       ELSE LET event == JsonParse(line) IN
         IF event.dtype = "input_json_delta"
         THEN ensureDeltaFlushTimer(
                [m EXCEPT !.p.deltaBuffer = BufferAdd(@, Coalesce(event.index, 0), event.pj, ln),
                          !.p.lastDeltaEvent = event])
         ELSE LET m1 == IF m.p.deltaBuffer # <<>> THEN flushDeltaBuffer(m) ELSE m
                  m2 == IF event.inner = "content_block_stop" THEN stopDeltaFlushTimer(m1) ELSE m1
              IN sendToRenderer(m2, Envelope(event.type, "", "", event, {ln}))

IndexOfNL(buf) ==
  IF \E i \in 1..Len(buf) : buf[i] = NL
  THEN CHOOSE i \in 1..Len(buf) : buf[i] = NL /\ \A j \in 1..(i - 1) : buf[j] # NL
  ELSE 0

\* a faulty StripCR: the "\r" is kept
StripCR_Keep(line) == line

StripCR(line) ==
  IF line # <<>> /\ line[Len(line)] = CR THEN SubSeq(line, 1, Len(line) - 1) ELSE line

\* the while loop of the stdout 'data' handler
RECURSIVE processLines(_)
processLines(m) ==
  LET newlineIndex == IndexOfNL(m.p.stdoutBuffer) IN
  IF newlineIndex = 0 THEN m
  ELSE LET line == StripCR(SubSeq(m.p.stdoutBuffer, 1, newlineIndex - 1))
           m1 == [m EXCEPT !.p.stdoutBuffer =
                    SubSeq(@, newlineIndex + 1, Len(@))]
       IN processLines(IF Trim(line) # <<>>
                       THEN handleStreamLine(
                              [m1 EXCEPT !.p.lineNo = @ + 1, !.p.handled = Append(@, line),
                                         !.p.flushOf = Append(@, m1.p.flushes)], line)
                       ELSE m1)

onStdoutData(m, chunk) == processLines([m EXCEPT !.p.stdoutBuffer = @ \o chunk])

stopHeartbeat(m) == [m EXCEPT !.p.heartbeatInterval = FALSE]

startHeartbeat(m) == [stopHeartbeat(m) EXCEPT !.p.heartbeatInterval = TRUE]

\* a faulty stop: everything is cleared but the subprocess is not signalled
stop_NoKill(m) ==
  LET m1 == stopDeltaFlushTimer(stopHeartbeat(m))
  IN [m1 EXCEPT !.p.deltaBuffer = <<>>,
                !.p.lastDeltaEvent = NoEvent,
                !.p.stdoutBuffer = <<>>,
                !.p.stderrOpen = FALSE,
                !.p.process = 0]

\* a faulty stop: the stdout buffer keeps the incomplete line
stop_KeepStdout(m) ==
  LET m1 == stopDeltaFlushTimer(stopHeartbeat(m))
      pid == m1.p.process
  IN [m1 EXCEPT !.p.deltaBuffer = <<>>,
                !.p.lastDeltaEvent = NoEvent,
                !.p.stderrOpen = FALSE,
                !.p.process = 0,
                !.os = IF pid # 0 THEN [@ EXCEPT ![pid].signalled = TRUE] ELSE @]

\* ClaudeProcess.stop
stop(m) ==
  LET m1 == stopDeltaFlushTimer(stopHeartbeat(m))
      pid == m1.p.process
  IN [m1 EXCEPT !.p.deltaBuffer = <<>>,
                !.p.lastDeltaEvent = NoEvent,
                !.p.stdoutBuffer = <<>>,
                !.p.stderrOpen = FALSE,
                !.p.process = 0,
                !.os = IF pid # 0 THEN [@ EXCEPT ![pid].signalled = TRUE] ELSE @]

\* a spawned subprocess (history: requested, the cwd that start was called with)
NewSubprocess(owner, cwd, requested) ==
  [owner |-> owner, open |-> TRUE, signalled |-> FALSE, out |-> <<>>, stdin |-> 0,
   cwd |-> cwd, requested |-> requested]

\* a faulty start: the subprocess is spawned although the CLI was not found
start_NoCliCheck(m, cwd, installed) ==
  LET m1 == stop(m)
      pid == Len(m1.os) + 1
      safeCwd == validateCwd(cwd)
      m2 == [m1 EXCEPT !.p.claudePath = TRUE,
                       !.p.currentCwd = safeCwd,
                       !.p.process = pid,
                       !.p.stdoutBuffer = <<>>,
                       !.p.stderrOpen = TRUE,
                       !.os = Append(@, NewSubprocess(m1.p.n, safeCwd, cwd))]
  IN startHeartbeat(sendToRenderer(m2, Envelope("status", "started", "", NoEvent, {})))

\* ClaudeProcess.start; installed: what findClaudeCli() finds now
start(m, cwd, installed) ==
  LET m1 == stop(m)
      found == m1.p.claudePath \/ installed
  IN IF ~found
     THEN sendToRenderer(m1, Envelope("error", "", "Claude CLI not found", NoEvent, {}))
     ELSE LET pid == Len(m1.os) + 1
              safeCwd == validateCwd(cwd)
              m2 == [m1 EXCEPT !.p.claudePath = TRUE,
                               !.p.currentCwd = safeCwd,
                               !.p.process = pid,
                               !.p.stdoutBuffer = <<>>,
                               !.p.stderrOpen = TRUE,
                               !.os = Append(@, NewSubprocess(m1.p.n, safeCwd, cwd))]
          IN startHeartbeat(sendToRenderer(m2, Envelope("status", "started", "", NoEvent, {})))

isRunning(p) == p.process # 0

\* ClaudeProcess.send
send(m) ==
  IF m.p.process = 0
  THEN sendToRenderer(m, Envelope("error", "", "Claude process not running. Please restart.", NoEvent, {}))
  ELSE [m EXCEPT !.os[m.p.process].stdin = @ + 1]

\* the 'close' handler registered in start(), run for subprocess pid
onClose(m) ==
  [sendToRenderer(m, Envelope("status", "stopped", "", NoEvent, {})) EXCEPT !.p.process = 0]

(***************************************************************************)
(* ClaudeProcessManager and the event loop of the main process.            *)
(***************************************************************************)
Mach(n) == [p |-> instances[n], q |-> immediateQ, os |-> os]

Commit(m) ==
  /\ instances' = [instances EXCEPT ![m.p.n] = m.p]
  /\ immediateQ' = m.q
  /\ os' = m.os

Op(op, sid, pid) == [op |-> op, sid |-> sid, pid |-> pid]
NoOp == Op("none", "", 0)

Record(op) == lastOp' = op

\* the setImmediate callbacks queued by a callback run (check phase of the loop
\* iteration) before the next callback is taken; deferred sends keep their
\* order whenever they run
LoopIdle == immediateQ = <<>>

\* one more event from outside: a registry call, a stdout chunk, a heartbeat tick
Event(op) ==
  /\ LoopIdle /\ events < MaxEvents /\ events' = events + 1 /\ Record(op)
  /\ UNCHANGED appVars

\* a callback the program itself caused: a subprocess closing, a flush timer tick
Step == LoopIdle /\ Record(NoOp) /\ UNCHANGED <<events, appVars>>

\* a faulty sendError: nothing is sent
sendError_Silent(sessionId, error) == channel

\* ClaudeProcessManager.sendError: webContents.send directly, no setImmediate
sendError(sessionId, error) ==
  Append(channel, [Envelope("error", "", error, NoEvent, {}) EXCEPT !.sessionId = sessionId])

MgrStart(sessionId, cwd) ==
  /\ LET n == processes[sessionId] IN
       IF n # 0
       THEN LET m0 == Mach(n)
                m1 == IF isRunning(m0.p) THEN stop(m0) ELSE m0
                m2 == start(m1, cwd, cliInstalled)
            IN /\ Commit(m2)
               /\ processes' = processes
               /\ Event(Op("start", sessionId, m2.p.process))
       ELSE LET k == Len(instances) + 1
                m0 == [p |-> NewClaudeProcess(k, sessionId, cliInstalled),
                       q |-> immediateQ, os |-> os]
                m2 == start(m0, cwd, cliInstalled)
            IN /\ instances' = Append(instances, m2.p)
               /\ immediateQ' = m2.q
               /\ os' = m2.os
               /\ processes' = [processes EXCEPT ![sessionId] = k]
               /\ Event(Op("start", sessionId, m2.p.process))
  /\ UNCHANGED <<cliInstalled, channel>>

MgrSend(sessionId) ==
  /\ LET n == processes[sessionId] IN
       IF n = 0
       THEN /\ channel' = sendError(sessionId, "No Claude process running for this session. Please restart.")
            /\ UNCHANGED <<instances, immediateQ, os>>
       ELSE IF ~isRunning(instances[n])
       THEN /\ channel' = sendError(sessionId, "Claude process not running. Please restart.")
            /\ UNCHANGED <<instances, immediateQ, os>>
       ELSE /\ Commit(send(Mach(n)))
            /\ UNCHANGED channel
  /\ Event(Op("send", sessionId, 0))
  /\ UNCHANGED <<processes, cliInstalled>>

MgrStop(sessionId) ==
  /\ LET n == processes[sessionId] IN
       IF n # 0 THEN Commit(stop(Mach(n)))
       ELSE UNCHANGED <<instances, immediateQ, os>>
  /\ Event(Op("stop", sessionId, 0))
  /\ UNCHANGED <<processes, cliInstalled, channel>>

\* a faulty stopEach: only the first object is stopped
stopEach_FirstOnly(ins, q, o) ==
  IF ins = <<>> THEN [ps |-> <<>>, q |-> q, os |-> o]
  ELSE LET m == stop([p |-> Head(ins), q |-> q, os |-> o])
       IN [ps |-> <<m.p>> \o Tail(ins), q |-> m.q, os |-> m.os]

\* the loop of stopAll: stop() for every object of the map
RECURSIVE stopEach(_, _, _)
stopEach(ins, q, o) ==
  \* ins: the objects still to stop, as a sequence of instance records
  IF ins = <<>> THEN [ps |-> <<>>, q |-> q, os |-> o]
  ELSE LET m == stop([p |-> Head(ins), q |-> q, os |-> o])
           r == stopEach(Tail(ins), m.q, m.os)
       IN [ps |-> <<m.p>> \o r.ps, q |-> r.q, os |-> r.os]

\* the tracked objects in the order of instance numbers
RECURSIVE Tracked(_)
Tracked(n) ==
  IF n = 0 THEN <<>>
  ELSE Tracked(n - 1) \o
       (IF \E s \in SessionIds : processes[s] = n THEN <<instances[n]>> ELSE <<>>)

MgrStopAll ==
  /\ LET r == stopEach(Tracked(Len(instances)), immediateQ, os) IN
       /\ instances' = [n \in 1..Len(instances) |->
                          IF \E i \in 1..Len(r.ps) : r.ps[i].n = n
                          THEN (CHOOSE x \in Range(r.ps) : x.n = n)
                          ELSE instances[n]]
       /\ immediateQ' = r.q
       /\ os' = r.os
  /\ processes' = [s \in SessionIds |-> 0]
  /\ Event(Op("stopAll", "", 0))
  /\ UNCHANGED <<cliInstalled, channel>>

\* ClaudeProcessManager.isRunning
MgrIsRunning(sessionId) ==
  processes[sessionId] # 0 /\ isRunning(instances[processes[sessionId]])

\* ClaudeProcessManager.getCwd
MgrGetCwd(sessionId) ==
  IF processes[sessionId] # 0 THEN instances[processes[sessionId]].currentCwd ELSE NoCwd

\* ClaudeProcessManager.getAllStatus, as a set
MgrGetAllStatus ==
  {[sessionId |-> s, running |-> isRunning(instances[processes[s]]),
    cwd |-> instances[processes[s]].currentCwd] : s \in {t \in SessionIds : processes[t] # 0}}

\* a faulty removeSession: the object is stopped but stays in the map
MgrRemoveSession_KeepEntry(sessionId) ==
  /\ LET n == processes[sessionId] IN
       IF n # 0 /\ isRunning(instances[n]) THEN Commit(stop(Mach(n)))
       ELSE UNCHANGED <<instances, immediateQ, os>>
  /\ Event(Op("remove", sessionId, 0))
  /\ UNCHANGED <<processes, cliInstalled, channel>>

MgrRemoveSession(sessionId) ==
  /\ LET n == processes[sessionId] IN
       IF n # 0
       THEN /\ IF isRunning(instances[n]) THEN Commit(stop(Mach(n)))
               ELSE UNCHANGED <<instances, immediateQ, os>>
            /\ processes' = [processes EXCEPT ![sessionId] = 0]
       ELSE UNCHANGED <<processes, instances, immediateQ, os>>
  /\ Event(Op("remove", sessionId, 0))
  /\ UNCHANGED <<cliInstalled, channel>>

\* the stdout 'data' handler registered for subprocess pid, bound to its object
StdoutData(pid, chunk) ==
  /\ pid \in 1..Len(os)
  /\ os[pid].open
  /\ LET m == onStdoutData(Mach(os[pid].owner), chunk) IN
       /\ instances' = [instances EXCEPT ![m.p.n] = m.p]
       /\ immediateQ' = m.q
       /\ os' = [os EXCEPT ![pid].out = @ \o chunk]
  /\ Event(NoOp)
  /\ UNCHANGED <<processes, cliInstalled, channel>>

\* subprocess pid exits (by itself or after the signal): its 'close' event
ProcClose(pid) ==
  /\ pid \in 1..Len(os)
  /\ os[pid].open
  /\ LET m == onClose(Mach(os[pid].owner)) IN
       /\ instances' = [instances EXCEPT ![m.p.n] = m.p]
       /\ immediateQ' = m.q
       /\ os' = [os EXCEPT ![pid].open = FALSE]
  /\ Step
  /\ UNCHANGED <<processes, cliInstalled, channel>>

\* the setInterval callback of startHeartbeat
HeartbeatTick(n) ==
  /\ n \in 1..Len(instances)
  /\ instances[n].heartbeatInterval
  /\ channel' = Append(channel,
       [Envelope("heartbeat", "", "", NoEvent, {}) EXCEPT
          !.sessionId = instances[n].sessionId, !.obj = n])
  /\ Event(NoOp)
  /\ UNCHANGED <<processes, instances, os, cliInstalled, immediateQ>>

\* the setInterval callback of ensureDeltaFlushTimer
DeltaTimerTick(n) ==
  /\ n \in 1..Len(instances)
  /\ instances[n].deltaFlushTimer
  /\ instances[n].deltaBuffer # <<>>
  /\ Commit(flushDeltaBuffer(Mach(n)))
  /\ Step
  /\ UNCHANGED <<processes, cliInstalled, channel>>

\* the oldest setImmediate callback of sendToRenderer runs
RunImmediate ==
  /\ immediateQ # <<>>
  /\ channel' = Append(channel, Head(immediateQ))
  /\ immediateQ' = Tail(immediateQ)
  /\ lastOp' = lastOp
  /\ UNCHANGED <<processes, instances, os, cliInstalled, events, appVars>>

\* the executable is installed while the application runs
InstallCli ==
  /\ ~cliInstalled
  /\ cliInstalled' = TRUE
  /\ Step
  /\ UNCHANGED <<processes, instances, os, immediateQ, channel>>

JsonLines ==
  {JsonDelta(0, <<>>), JsonDelta(0, <<"a">>), JsonDelta(0, <<"b">>), JsonDelta(1, <<"c">>),
   BlockStop(0), ResultEvent}

\* what a subprocess writes in one chunk: a JSON line, a line of plain output, a
\* line and the beginning of the next, or a line of plain output and a JSON line
ProcChunks ==
  {<<e, NL>> : e \in JsonLines} \cup
  {<<Ch("x"), NL>>, <<JsonDelta(0, <<"a">>), NL, Ch("x")>>, <<Ch("x"), NL, BlockStop(0), NL>>}

(***************************************************************************)
(* The renderer (App.tsx).  ui is the React state of the App component and *)
(* its two live refs; refs[s] is what the per-session ref maps hold for    *)
(* session s.  A render and the effects that follow it (which refresh      *)
(* handleStreamEventRef) are taken to be atomic with the state update that *)
(* caused them, so a stream event is always handled by the closure of the  *)
(* current render.  A closure that outlives its render keeps the values it *)
(* captured: the onRender callback of a QuantumStreamRenderer, the         *)
(* flushToolJson of a flush timer, and the handleSelectSession that the    *)
(* replay timeout calls.  generateId() returns a random string: in SpecApp *)
(* it never returns the same string twice, in SpecTurns it may return any  *)
(* string of a small set.                                                  *)
(* A JSON text is a sequence of pieces; "t" stands for "todos":[t].        *)
(***************************************************************************)
BlockIndices == {0, 1}
NoId == 0
NoSession == ""

JsonUndefined == [defined |-> FALSE, hasTodos |-> FALSE, todos |-> <<>>]
JsonObject(hasTodos, todos) == [defined |-> TRUE, hasTodos |-> hasTodos, todos |-> todos]
TodosText == <<"{", "t", "}">>
EmptyObjectText == <<"{", "}">>
\* JSON.parse(text) does not throw
ToolJsonParses(text) == text \in {TodosText, EmptyObjectText}
\* JSON.parse(text)
ParseToolJson(text) ==
  IF text = TodosText THEN JsonObject(TRUE, <<"t">>) ELSE JsonObject(FALSE, <<>>)

\* an envelope as the renderer sees it: the session tag and the unwrapped event
\* (usage: the event has a usage object, as the result events of the CLI have)
AppEvent(sessionId, type, index, kind, text, name, cost) ==
  [sessionId |-> sessionId, type |-> type, index |-> index, kind |-> kind,
   text |-> text, name |-> name, cost |-> cost, usage |-> type = "result"]

\* {"type":"result","total_cost_usd":cost}: a result event without a usage object
ResultNoUsage(sessionId, cost) ==
  [AppEvent(sessionId, "result", NoIndex, "", <<>>, "", cost) EXCEPT !.usage = FALSE]

NoAppEvent == AppEvent(NoSession, "none", NoIndex, "", <<>>, "", 0)

\* what the subprocess of a session streams for one turn: session A answers with
\* a text block, session B calls TodoWrite
Script(s) ==
  IF s = "A"
  THEN << AppEvent(s, "message_start", NoIndex, "", <<>>, "", 0),
          AppEvent(s, "content_block_start", 0, "text", <<>>, "", 0),
          AppEvent(s, "content_block_delta", 0, "text_delta", <<"h", "i">>, "", 0),
          AppEvent(s, "content_block_stop", 0, "", <<>>, "", 0),
          AppEvent(s, "message_stop", NoIndex, "", <<>>, "", 0),
          AppEvent(s, "result", NoIndex, "", <<>>, "", 2) >>
  ELSE << AppEvent(s, "message_start", NoIndex, "", <<>>, "", 0),
          AppEvent(s, "content_block_start", 0, "tool_use", <<>>, "TodoWrite", 0),
          AppEvent(s, "content_block_delta", 0, "input_json_delta", <<"{", "t">>, "", 0),
          AppEvent(s, "content_block_delta", 0, "input_json_delta", <<"}">>, "", 0),
          AppEvent(s, "content_block_stop", 0, "", <<>>, "", 0),
          AppEvent(s, "message_stop", NoIndex, "", <<>>, "", 0),
          AppEvent(s, "result", NoIndex, "", <<>>, "", 3) >>

NewMessage(id) == [id |-> id, content |-> <<>>, isStreaming |-> TRUE]

NewBlock(type, content, toolName) ==
  [type |-> type, content |-> content, isComplete |-> FALSE, toolName |-> toolName,
   toolInput |-> JsonUndefined,
   toolStatus |-> IF type = "tool_use" THEN "running" ELSE ""]

\* a QuantumStreamRenderer: its character buffer, whether a frame of its render
\* loop is requested (rafId), and the session that was focused when its onRender
\* callback was made
\* (history: destroyed, destroy() was called; rendered, the calls of onRender, each
\* with its text and the method that made it; received, the characters passed to
\* onData); mode is state.mode, targetFPS is config.targetFPS, recover counts the
\* pending timeouts of onJankDetected
NoRenderer ==
  [exists |-> FALSE, buffer |-> <<>>, rafId |-> FALSE, currentSessionId |-> NoSession,
   destroyed |-> FALSE, rendered |-> <<>>, received |-> <<>>,
   mode |-> "smooth", targetFPS |-> 60, recover |-> 0]

\* new QuantumStreamRenderer(onRender, ...): the constructor starts the render loop
NewRenderer(captured) ==
  [exists |-> TRUE, buffer |-> <<>>, rafId |-> TRUE, currentSessionId |-> captured,
   destroyed |-> FALSE, rendered |-> <<>>, received |-> <<>>,
   mode |-> "smooth", targetFPS |-> 60, recover |-> 0]
NoTimer == [active |-> FALSE, currentSessionId |-> NoSession]

\* the thread ids that the CLI assigns (session_id of system/init), and null
ThreadIds == {"t1", "t2"}
NoThread == ""

\* the entries of the per-session ref maps for a session that was focused once
\* and has no messages
NewSessionRefs ==
  [messages |-> <<>>, sessionInfo |-> [totalCost |-> 0], todos |-> <<>>,
   streaming |-> FALSE, thinkingStatus |-> "idle",
   currentMessageId |-> NoId, currentBlockIndex |-> 0,
   claudeSessionId |-> NoThread,
   toolJsonAccumulator |-> [i \in BlockIndices |-> <<>>],
   lastFlushedLength |-> [i \in BlockIndices |-> 0],
   toolJsonFlushTimer |-> NoTimer,
   toolNameByBlock |-> [i \in BlockIndices |-> ""],
   quantumRenderer |-> [i \in BlockIndices |-> NoRenderer]]

\* the sessions file (sessions: totalCost of each stored session), the
\* 'sessions:save' invocations that the main process has not handled yet and the
\* results that the renderer has not received yet, both in order
\* (history: saved, the totalCost values stored for each session, in order)
NewStore ==
  [sessions |-> [s \in SessionIds |-> 0], requests |-> <<>>, replies |-> <<>>,
   saved |-> [s \in SessionIds |-> <<>>]]

NewUi(focused) ==
  [currentSessionId |-> focused, messages |-> <<>>, sessionInfo |-> [totalCost |-> 0],
   todos |-> <<>>, isStreaming |-> FALSE, thinkingStatus |-> "idle",
   currentMessageIdRef |-> NoId, currentBlockIndexRef |-> 0,
   claudeSessionId |-> NoThread]

\* updatedContent[blockIndex] is defined
HasBlock(content, blockIndex) == blockIndex >= 0 /\ blockIndex < Len(content)

\* msgs.map(msg => msg.id === msgId ? {...} : msg), where updated[k] is what the
\* callback makes of msgs[k]
MapMessage(msgs, msgId, updated) ==
  [k \in 1..Len(msgs) |-> IF msgs[k].id = msgId THEN updated[k] ELSE msgs[k]]

\* "update state for the current session, the ref for a background session", where
\* closureSessionId is the currentSessionId of the closure that runs
\* The updater's argument prev is prevMessages and its result is updated.
prevMessages(x, sessionId, closureSessionId) ==
  IF sessionId = closureSessionId THEN x.ui.messages ELSE x.refs[sessionId].messages

updateSessionMessages(x, sessionId, closureSessionId, updated) ==
  IF sessionId = closureSessionId
  THEN [x EXCEPT !.ui.messages = updated]
  ELSE [x EXCEPT !.refs[sessionId].messages = updated]

prevSessionInfo(x, sessionId, closureSessionId) ==
  IF sessionId = closureSessionId THEN x.ui.sessionInfo ELSE x.refs[sessionId].sessionInfo

updateSessionInfo(x, sessionId, closureSessionId, updated) ==
  IF sessionId = closureSessionId
  THEN [x EXCEPT !.ui.sessionInfo = updated]
  ELSE [x EXCEPT !.refs[sessionId].sessionInfo = updated]

AppendText(msg, blockIndex, text) ==
  IF HasBlock(msg.content, blockIndex)
  THEN [msg EXCEPT !.content[blockIndex + 1].content = @ \o text]
  ELSE msg

\* the onRender callback of the renderer that getQuantumRenderer made for
\* (sessionId, blockIndex) when the focused session was captured
onRender(x, sessionId, blockIndex, captured, text) ==
  LET msgId == x.refs[sessionId].currentMessageId
      msgs == prevMessages(x, sessionId, captured)
  IN IF msgId = NoId THEN x
     ELSE updateSessionMessages(x, sessionId, captured,
            MapMessage(msgs, msgId,
              [k \in 1..Len(msgs) |-> AppendText(msgs[k], blockIndex, text)]))

\* the defaults of StreamConfig
MinBufferMs == 50
MaxBufferMs == 200
AdaptiveThreshold == 100

\* QuantumStreamRenderer.updateRenderMode on the renderer r: the buffer holds
\* bufferSize * (1000 / targetFPS) milliseconds of frames
updateRenderMode(r) ==
  LET bufferSize == Len(r.buffer) IN
    [r EXCEPT !.mode = IF bufferSize * 1000 < MinBufferMs * r.targetFPS THEN "realtime"
                       ELSE IF bufferSize * 1000 > MaxBufferMs * r.targetFPS THEN "catchup"
                       ELSE "smooth"]

\* a faulty onData: the chunk is put in front of the buffered characters
rendererOnData_Unshift(x, sessionId, blockIndex, chunk) ==
  [x EXCEPT !.refs[sessionId].quantumRenderer[blockIndex] =
              updateRenderMode([@ EXCEPT !.buffer = chunk \o @, !.received = @ \o chunk])]

\* QuantumStreamRenderer.onData
rendererOnData(x, sessionId, blockIndex, chunk) ==
  [x EXCEPT !.refs[sessionId].quantumRenderer[blockIndex] =
              updateRenderMode([@ EXCEPT !.buffer = @ \o chunk, !.received = @ \o chunk])]

\* a faulty flush: the buffer is rendered and kept
rendererFlush_KeepBuffer(x, sessionId, blockIndex) ==
  LET r == x.refs[sessionId].quantumRenderer[blockIndex] IN
    IF r.exists /\ r.buffer # <<>>
    THEN onRender([x EXCEPT !.refs[sessionId].quantumRenderer[blockIndex].rendered =
                              Append(@, [text |-> r.buffer, by |-> "flush"])],
                  sessionId, blockIndex, r.currentSessionId, r.buffer)
    ELSE x

\* QuantumStreamRenderer.flush
rendererFlush(x, sessionId, blockIndex) ==
  LET r == x.refs[sessionId].quantumRenderer[blockIndex] IN
    IF r.exists /\ r.buffer # <<>>
    THEN onRender([x EXCEPT !.refs[sessionId].quantumRenderer[blockIndex].buffer = <<>>,
                            !.refs[sessionId].quantumRenderer[blockIndex].rendered =
                              Append(@, [text |-> r.buffer, by |-> "flush"])],
                  sessionId, blockIndex, r.currentSessionId, r.buffer)
    ELSE x

\* QuantumStreamRenderer.extractBatch: the number of characters that leave the
\* buffer when count are asked for; the batch is extended to the next space if
\* that is one of the second to fifth characters after the batch
extractBatch(buffer, count) ==
  LET lookAhead == SubSeq(buffer, count + 1, Min({count + 10, Len(buffer)}))
      spaces == {k \in 1..Len(lookAhead) : lookAhead[k] = " "}
      nextSpace == IF spaces = {} THEN -1 ELSE Min(spaces) - 1
      extractCount == IF count < Len(buffer) /\ nextSpace > 0 /\ nextSpace < 5
                      THEN count + nextSpace + 1 ELSE count
  IN Min({extractCount, Len(buffer)})

\* QuantumStreamRenderer.render, where calculateRenderAmount returns count
rendererRender(x, sessionId, blockIndex, count) ==
  LET r == x.refs[sessionId].quantumRenderer[blockIndex]
      n == extractBatch(r.buffer, count)
      batch == SubSeq(r.buffer, 1, n)
  IN IF r.buffer = <<>> \/ batch = <<>> THEN x
     ELSE onRender([x EXCEPT !.refs[sessionId].quantumRenderer[blockIndex].buffer =
                               SubSeq(@, n + 1, Len(@)),
                             !.refs[sessionId].quantumRenderer[blockIndex].rendered =
                               Append(@, [text |-> batch, by |-> "render"])],
                   sessionId, blockIndex, r.currentSessionId, batch)

\* Math.ceil(a / b) for b > 0
CeilDiv(a, b) == -((-a) \div b)

\* QuantumStreamRenderer.calculateSmoothAmount, where Math.ceil(optimal) is optimal:
\* baseRate times the factors of frame timing, network jitter and scroll velocity
calculateSmoothAmount(bufferSize, optimal) == Max({1, Min({bufferSize, optimal})})

\* QuantumStreamRenderer.calculateHighRefreshAmount; refreshRatio is targetFPS / 60,
\* and in smooth mode Math.ceil(optimal) is at least Math.ceil(baseRate), because
\* jitterFactor is at least 1
calculateHighRefreshAmount(r, optimal) ==
  LET bufferSize == Len(r.buffer) IN
    CASE r.mode = "realtime" -> Min({bufferSize, CeilDiv(3 * 60, r.targetFPS)})
      [] r.mode = "catchup" ->
           Min({bufferSize, CeilDiv((bufferSize - AdaptiveThreshold) * 60, r.targetFPS * 2)})
      [] r.mode = "smooth" ->
           Max({1, Min({bufferSize,
                        Max({optimal, CeilDiv(bufferSize * 60, 10 * r.targetFPS)}), 3})})

\* QuantumStreamRenderer.calculateRenderAmount
calculateRenderAmount(r, optimal) ==
  LET bufferSize == Len(r.buffer) IN
    IF r.targetFPS >= 240 THEN calculateHighRefreshAmount(r, optimal)
    ELSE CASE r.mode = "realtime" -> Min({bufferSize, 10})
           [] r.mode = "catchup" ->
                Min({bufferSize, Max({5, CeilDiv(bufferSize - AdaptiveThreshold, 10)})})
           [] r.mode = "smooth" -> calculateSmoothAmount(bufferSize, optimal)

\* QuantumStreamRenderer.onJankDetected: realtime for 100 ms
onJankDetected(r) ==
  IF r.mode = "smooth" THEN [r EXCEPT !.mode = "realtime", !.recover = @ + 1] ELSE r

\* the timeout of onJankDetected: oldMode was 'smooth'
jankRecover(r) ==
  [r EXCEPT !.recover = @ - 1, !.mode = IF @ = "realtime" THEN "smooth" ELSE @]

\* the number of characters that a frame is to render: none from an empty buffer
charsToRender(r, optimal) ==
  IF r.buffer = <<>> THEN 0 ELSE calculateRenderAmount(r, optimal)

\* one frame of the render loop: jank detection, then render(); render() returns
\* when charsToRender is 0, and for a negative number splice(0, extractCount)
\* removes nothing and the batch is empty
rendererLoop(x, sessionId, blockIndex, jank, optimal) ==
  LET r0 == x.refs[sessionId].quantumRenderer[blockIndex]
      r1 == IF jank THEN onJankDetected(r0) ELSE r0
      x1 == [x EXCEPT !.refs[sessionId].quantumRenderer[blockIndex] = r1]
  IN IF charsToRender(r1, optimal) <= 0 THEN x1
     ELSE rendererRender(x1, sessionId, blockIndex, charsToRender(r1, optimal))

\* a faulty destroy: the requested frame is not cancelled
rendererDestroy_NoCancel(x, sessionId, blockIndex) ==
  [x EXCEPT !.refs[sessionId].quantumRenderer[blockIndex].destroyed = TRUE]

\* QuantumStreamRenderer.destroy
rendererDestroy(x, sessionId, blockIndex) ==
  [x EXCEPT !.refs[sessionId].quantumRenderer[blockIndex].rafId = FALSE,
            !.refs[sessionId].quantumRenderer[blockIndex].destroyed = TRUE]

getQuantumRenderer(x, sessionId, blockIndex) ==
  IF x.refs[sessionId].quantumRenderer[blockIndex].exists THEN x
  ELSE [x EXCEPT !.refs[sessionId].quantumRenderer[blockIndex] =
                   NewRenderer(x.ui.currentSessionId)]

cleanupQuantumRenderers(x, sessionId) ==
  [rendererDestroy(rendererFlush(
     rendererDestroy(rendererFlush(x, sessionId, 0), sessionId, 0), sessionId, 1),
     sessionId, 1)
     EXCEPT !.refs[sessionId].quantumRenderer = [i \in BlockIndices |-> NoRenderer]]

SetFlushed(msg, acc, indices) ==
  [msg EXCEPT !.content =
     [k \in 1..Len(msg.content) |->
        IF (k - 1) \in indices THEN [msg.content[k] EXCEPT !.content = acc[k - 1]]
        ELSE msg.content[k]]]

\* flushToolJson(sessionId) of the closure whose currentSessionId is captured
flushToolJson(x, sessionId, captured) ==
  LET msgId == x.refs[sessionId].currentMessageId
      acc == x.refs[sessionId].toolJsonAccumulator
      last == x.refs[sessionId].lastFlushedLength
      indicesToFlush == {i \in BlockIndices : acc[i] # <<>>}
      fresh == {i \in indicesToFlush : Len(acc[i]) > last[i]}
      x1 == [x EXCEPT !.refs[sessionId].lastFlushedLength =
                        [i \in BlockIndices |-> IF i \in fresh THEN Len(acc[i]) ELSE last[i]]]
      msgs == prevMessages(x1, sessionId, captured)
  IN IF msgId = NoId \/ indicesToFlush = {} \/ fresh = {} THEN x
     ELSE updateSessionMessages(x1, sessionId, captured,
            MapMessage(msgs, msgId,
              [k \in 1..Len(msgs) |-> SetFlushed(msgs[k], acc, indicesToFlush)]))

ensureFlushTimer(x, sessionId) ==
  IF x.refs[sessionId].toolJsonFlushTimer.active THEN x
  ELSE [x EXCEPT !.refs[sessionId].toolJsonFlushTimer =
                   [active |-> TRUE, currentSessionId |-> x.ui.currentSessionId]]

stopFlushTimer(x, sessionId) == [x EXCEPT !.refs[sessionId].toolJsonFlushTimer = NoTimer]

isCurrentSession(x, e) == e.sessionId = x.ui.currentSessionId

\* case 'system' (e.kind: subtype, e.name: session_id)
onSystemInit(x, e) ==
  LET s == e.sessionId
      x1 == updateSessionInfo(x, s, x.ui.currentSessionId,
                              prevSessionInfo(x, s, x.ui.currentSessionId))
      x2 == [x1 EXCEPT !.refs[s].claudeSessionId = e.name]
  IN IF e.kind # "init" THEN x
     ELSE IF e.name = NoThread THEN x1
     ELSE IF isCurrentSession(x, e) THEN [x2 EXCEPT !.ui.claudeSessionId = e.name]
     ELSE x2

\* case 'message_start'; newMessageId is what generateId() returns
onMessageStart(x, e, newMessageId) ==
  LET s == e.sessionId
      x1 == [x EXCEPT !.nextId = @ + 1,
                      !.refs[s].streaming = TRUE,
                      !.refs[s].currentMessageId = newMessageId,
                      !.refs[s].currentBlockIndex = 0]
      x2 == IF isCurrentSession(x, e)
            THEN [x1 EXCEPT !.ui.isStreaming = TRUE,
                            !.ui.currentMessageIdRef = newMessageId,
                            !.ui.currentBlockIndexRef = 0]
            ELSE x1
      prev == prevMessages(x2, s, x.ui.currentSessionId)
  IN updateSessionMessages(x2, s, x.ui.currentSessionId,
       Append(prev, NewMessage(newMessageId)))

\* case 'content_block_start' (the input of a starting tool_use block is {})
onContentBlockStart(x, e) ==
  LET s == e.sessionId
      msgId == x.refs[s].currentMessageId
      blockIndex == Coalesce(e.index, x.refs[s].currentBlockIndex)
      status == IF e.kind = "thinking" THEN "thinking"
                ELSE IF e.kind = "text" THEN "responding"
                ELSE x.refs[s].thinkingStatus
      x1 == [x EXCEPT !.refs[s].thinkingStatus = status,
                      !.refs[s].toolNameByBlock[blockIndex] =
                         IF e.kind = "tool_use" /\ e.name # "" THEN e.name ELSE @]
      x2 == IF isCurrentSession(x, e) /\ e.kind \in {"thinking", "text"}
            THEN [x1 EXCEPT !.ui.thinkingStatus = status] ELSE x1
      prev == prevMessages(x2, s, x.ui.currentSessionId)
      x3 == updateSessionMessages(x2, s, x.ui.currentSessionId,
              MapMessage(prev, msgId,
                [k \in 1..Len(prev) |->
                   [prev[k] EXCEPT !.content =
                      Append(@, NewBlock(e.kind, e.text, e.name))]]))
      x4 == [x3 EXCEPT !.refs[s].currentBlockIndex = blockIndex]
  IN IF msgId = NoId THEN x
     ELSE IF isCurrentSession(x, e)
          THEN [x4 EXCEPT !.ui.currentBlockIndexRef = blockIndex] ELSE x4

\* case 'content_block_delta'
onContentBlockDelta(x, e) ==
  LET s == e.sessionId
      msgId == x.refs[s].currentMessageId
      blockIndex == Coalesce(e.index, x.refs[s].currentBlockIndex)
  IN IF msgId = NoId \/ e.text = <<>> THEN x
     ELSE IF e.kind \in {"text_delta", "thinking_delta"}
     THEN rendererOnData(getQuantumRenderer(x, s, blockIndex), s, blockIndex, e.text)
     ELSE IF e.kind = "input_json_delta"
     THEN ensureFlushTimer(
            [x EXCEPT !.refs[s].toolJsonAccumulator[blockIndex] = @ \o e.text], s)
     ELSE x

CompleteBlock(block, finalJsonContent, preParsedInput) ==
  LET jsonContent == IF finalJsonContent # <<>> THEN finalJsonContent ELSE block.content
      parsedInput ==
        IF preParsedInput.defined THEN preParsedInput
        ELSE IF block.type = "tool_use" /\ jsonContent # <<>> /\ ToolJsonParses(jsonContent)
             THEN ParseToolJson(jsonContent)
             ELSE block.toolInput
  IN [block EXCEPT !.content = jsonContent,
                   !.isComplete = TRUE,
                   !.toolInput = parsedInput,
                   !.toolStatus = IF @ # "" THEN "complete" ELSE ""]

\* case 'content_block_stop'
onContentBlockStop(x, e) ==
  LET s == e.sessionId
      msgId == x.refs[s].currentMessageId
      blockIndex == Coalesce(e.index, x.refs[s].currentBlockIndex)
      x1 == [rendererDestroy(rendererFlush(x, s, blockIndex), s, blockIndex)
               EXCEPT !.refs[s].quantumRenderer[blockIndex] = NoRenderer]
      finalJsonContent == x1.refs[s].toolJsonAccumulator[blockIndex]
      x2 == [x1 EXCEPT !.refs[s].toolJsonAccumulator[blockIndex] = <<>>]
      x3 == IF \A i \in BlockIndices : x2.refs[s].toolJsonAccumulator[i] = <<>>
            THEN stopFlushTimer(x2, s) ELSE x2
      storedToolName == x3.refs[s].toolNameByBlock[blockIndex]
      preParsedInput ==
        IF storedToolName # "" /\ finalJsonContent # <<>> /\ ToolJsonParses(finalJsonContent)
        THEN ParseToolJson(finalJsonContent) ELSE JsonUndefined
      newTodos == storedToolName = "TodoWrite" /\ preParsedInput.hasTodos
      x4 == [x3 EXCEPT !.refs[s].todos = IF newTodos THEN preParsedInput.todos ELSE @,
                       !.ui.todos = IF newTodos /\ isCurrentSession(x, e)
                                    THEN preParsedInput.todos ELSE @,
                       !.refs[s].toolNameByBlock[blockIndex] = ""]
      prev == prevMessages(x4, s, x.ui.currentSessionId)
  IN IF msgId = NoId THEN x
     ELSE updateSessionMessages(x4, s, x.ui.currentSessionId,
            MapMessage(prev, msgId,
              [k \in 1..Len(prev) |->
                 IF HasBlock(prev[k].content, blockIndex)
                 THEN [prev[k] EXCEPT !.content[blockIndex + 1] =
                         CompleteBlock(@, finalJsonContent, preParsedInput)]
                 ELSE prev[k]]))

\* case 'message_stop'
onMessageStop(x, e) ==
  LET msgId == x.refs[e.sessionId].currentMessageId
      prev == prevMessages(x, e.sessionId, x.ui.currentSessionId)
  IN IF msgId = NoId THEN x
     ELSE updateSessionMessages(x, e.sessionId, x.ui.currentSessionId,
            MapMessage(prev, msgId,
              [k \in 1..Len(prev) |-> [prev[k] EXCEPT !.isStreaming = FALSE]]))

\* case 'assistant' of an event whose message.content has one text block;
\* uuid is the uuid of the record
onAssistant(x, e, uuid) ==
  LET s == e.sessionId
      x1 == [x EXCEPT !.refs[s].streaming = FALSE]
      x2 == IF isCurrentSession(x, e) THEN [x1 EXCEPT !.ui.isStreaming = FALSE] ELSE x1
      msgId == x.refs[s].currentMessageId
      contentBlocks == << [NewBlock("text", e.text, "") EXCEPT !.isComplete = TRUE] >>
      assistantMessage == [id |-> uuid, content |-> contentBlocks, isStreaming |-> FALSE]
      prev == prevMessages(x2, s, x.ui.currentSessionId)
  IN IF msgId = NoId
     THEN updateSessionMessages(x2, s, x.ui.currentSessionId, Append(prev, assistantMessage))
     ELSE x2

\* case 'result'
onResult(x, e) ==
  LET s == e.sessionId
      x1 == [x EXCEPT !.refs[s].streaming = FALSE,
                      !.refs[s].thinkingStatus = "idle",
                      !.refs[s].currentMessageId = NoId,
                      !.refs[s].currentBlockIndex = 0]
      x2 == IF isCurrentSession(x, e)
            THEN [x1 EXCEPT !.ui.isStreaming = FALSE,
                            !.ui.thinkingStatus = "idle",
                            !.ui.currentMessageIdRef = NoId,
                            !.ui.currentBlockIndexRef = 0]
            ELSE x1
      x3 == stopFlushTimer(cleanupQuantumRenderers(x2, s), s)
      x4 == [x3 EXCEPT !.refs[s].toolJsonAccumulator = [i \in BlockIndices |-> <<>>],
                       !.refs[s].lastFlushedLength = [i \in BlockIndices |-> 0],
                       !.refs[s].toolNameByBlock = [i \in BlockIndices |-> ""]]
      prev == prevSessionInfo(x4, s, x.ui.currentSessionId)
  IN IF e.usage
     THEN updateSessionInfo(x4, s, x.ui.currentSessionId,
            [prev EXCEPT !.totalCost = IF e.cost # 0 THEN e.cost ELSE @])
     ELSE x4

\* type 'error'
onError(x, e) ==
  LET x1 == [x EXCEPT !.refs[e.sessionId].streaming = FALSE,
                      !.refs[e.sessionId].thinkingStatus = "idle"]
  IN IF isCurrentSession(x, e)
     THEN [x1 EXCEPT !.ui.isStreaming = FALSE, !.ui.thinkingStatus = "idle"]
     ELSE x1

\* handleStreamEvent(event); id is what generateId() returns if the event calls it,
\* or the uuid of an assistant record
handleStreamEvent(x, e, id) ==
  CASE e.type = "error" -> onError(x, e)
    [] e.type = "system" -> onSystemInit(x, e)
    [] e.type = "message_start" -> onMessageStart(x, e, id)
    [] e.type = "content_block_start" -> onContentBlockStart(x, e)
    [] e.type = "content_block_delta" -> onContentBlockDelta(x, e)
    [] e.type = "content_block_stop" -> onContentBlockStop(x, e)
    [] e.type = "message_stop" -> onMessageStop(x, e)
    [] e.type = "assistant" -> onAssistant(x, e, id)
    [] e.type = "result" -> onResult(x, e)
    [] OTHER -> x

\* what a handleSelectSession closure sees of the render it was made in
Closure(x) ==
  [currentSessionId |-> x.ui.currentSessionId, messages |-> x.ui.messages,
   sessionInfo |-> x.ui.sessionInfo, todos |-> x.ui.todos,
   isStreaming |-> x.ui.isStreaming, thinkingStatus |-> x.ui.thinkingStatus,
   claudeSessionId |-> x.ui.claudeSessionId,
   sessions |-> x.sessions]

\* saveSession of the render env, up to "await window.electronAPI.sessions.save(session)"
saveSession(x, env) ==
  LET existingCost == env.sessions[env.currentSessionId]
      accumulatedCost == Max({existingCost, env.sessionInfo.totalCost})
  IN IF env.currentSessionId = NoSession THEN x
     ELSE [x EXCEPT !.store.requests =
                      Append(@, [id |-> env.currentSessionId, totalCost |-> accumulatedCost])]

\* the auto-save effect of the render that follows the change from x0 to x: it
\* runs if messages.length or currentSessionId has changed (the sessions are locked)
autoSave(x0, x) ==
  IF /\ \/ Len(x.ui.messages) # Len(x0.ui.messages)
        \/ x.ui.currentSessionId # x0.ui.currentSessionId
     /\ x.ui.currentSessionId # NoSession
     /\ Len(x.ui.messages) > 0
  THEN saveSession(x, Closure(x))
  ELSE x

\* a faulty handleSelectSession: the lock is taken without being tested
handleSelectSession_NoLock(x, sessionId, env) ==
  IF sessionId = env.currentSessionId THEN x
  ELSE LET c == env.currentSessionId IN
    [x EXCEPT !.sessionSwitchLockRef = TRUE,
              !.refs[c].messages = env.messages,
              !.refs[c].sessionInfo = env.sessionInfo,
              !.refs[c].todos = env.todos,
              !.refs[c].streaming = env.isStreaming,
              !.refs[c].thinkingStatus = env.thinkingStatus,
              !.refs[c].claudeSessionId =
                 IF env.claudeSessionId # NoThread THEN env.claudeSessionId ELSE @,
              !.refs[c].currentMessageId = x.ui.currentMessageIdRef,
              !.refs[c].currentBlockIndex = x.ui.currentBlockIndexRef,
              !.calls = Append(@, [pc |-> "saveSession", target |-> sessionId, env |-> env])]

\* handleSelectSession(session) of the closure env, up to "await saveSession()":
\* the sessions of the model are locked sessions whose messages are in memory
handleSelectSession(x, sessionId, env) ==
  IF sessionId = env.currentSessionId THEN x
  ELSE IF x.sessionSwitchLockRef THEN [x EXCEPT !.sessionSwitchQueueRef = sessionId]
  ELSE LET c == env.currentSessionId IN
    [x EXCEPT !.sessionSwitchLockRef = TRUE,
              !.refs[c].messages = env.messages,
              !.refs[c].sessionInfo = env.sessionInfo,
              !.refs[c].todos = env.todos,
              !.refs[c].streaming = env.isStreaming,
              !.refs[c].thinkingStatus = env.thinkingStatus,
              !.refs[c].claudeSessionId =
                 IF env.claudeSessionId # NoThread THEN env.claudeSessionId ELSE @,
              !.refs[c].currentMessageId = x.ui.currentMessageIdRef,
              !.refs[c].currentBlockIndex = x.ui.currentBlockIndexRef,
              !.calls = Append(@, [pc |-> "saveSession", target |-> sessionId, env |-> env])]

\* handleSelectSession from the return of saveSession() to "await claude.status()"
restoreSession(x, c) ==
  LET t == x.calls[c].target
      r == x.refs[t]
  IN [x EXCEPT !.ui = [currentSessionId |-> t, messages |-> r.messages,
                       sessionInfo |-> r.sessionInfo, todos |-> r.todos,
                       isStreaming |-> r.streaming, thinkingStatus |-> r.thinkingStatus,
                       currentMessageIdRef |-> r.currentMessageId,
                       currentBlockIndexRef |-> r.currentBlockIndex,
                       claudeSessionId |-> r.claudeSessionId],
               !.calls[c].pc = "status"]

RemoveAt(seq, c) == SubSeq(seq, 1, c - 1) \o SubSeq(seq, c + 1, Len(seq))

\* the finally block of handleSelectSession
releaseLock(x, c) ==
  LET env == x.calls[c].env
      queuedSessionId == x.sessionSwitchQueueRef
      x1 == [x EXCEPT !.sessionSwitchLockRef = FALSE, !.calls = RemoveAt(@, c)]
  IN IF queuedSessionId # NoSession /\ queuedSessionId # env.currentSessionId
     THEN [x1 EXCEPT !.sessionSwitchQueueRef = NoSession,
                     !.timeouts = Append(@, [target |-> queuedSessionId, env |-> env])]
     ELSE x1

\* handleStopGeneration of the render env, up to "await window.electronAPI.claude.stop(sessionId)"
handleStopGeneration(x, env) ==
  IF env.currentSessionId = NoSession THEN x
  ELSE [x EXCEPT !.calls = Append(@, [pc |-> "stop", target |-> env.currentSessionId,
                                      env |-> env])]

\* handleStopGeneration after the await, whether the call succeeded or not
stopGenerationDone(x, c) ==
  LET sessionId == x.calls[c].target
      x1 == [x EXCEPT !.ui.isStreaming = FALSE,
                      !.ui.thinkingStatus = "idle",
                      !.ui.currentMessageIdRef = NoId,
                      !.refs[sessionId].streaming = FALSE,
                      !.refs[sessionId].thinkingStatus = "idle",
                      !.refs[sessionId].currentMessageId = NoId,
                      !.refs[sessionId].currentBlockIndex = 0]
      x2 == [stopFlushTimer(x1, sessionId)
               EXCEPT !.refs[sessionId].toolJsonAccumulator = [i \in BlockIndices |-> <<>>],
                      !.refs[sessionId].lastFlushedLength = [i \in BlockIndices |-> 0],
                      !.refs[sessionId].toolNameByBlock = [i \in BlockIndices |-> ""]]
  IN [cleanupQuantumRenderers(x2, sessionId) EXCEPT !.calls = RemoveAt(@, c)]

App ==
  [ui |-> ui, refs |-> refs, nextId |-> nextId,
   sessionSwitchLockRef |-> sessionSwitchLockRef,
   sessionSwitchQueueRef |-> sessionSwitchQueueRef,
   calls |-> calls, timeouts |-> timeouts, sessions |-> sessions, store |-> store]

CommitApp(x) ==
  /\ ui' = x.ui
  /\ refs' = x.refs
  /\ nextId' = x.nextId
  /\ sessionSwitchLockRef' = x.sessionSwitchLockRef
  /\ sessionSwitchQueueRef' = x.sessionSwitchQueueRef
  /\ calls' = x.calls
  /\ timeouts' = x.timeouts
  /\ sessions' = x.sessions
  /\ store' = x.store

\* history: the block of a session that is being streamed, what its content
\* should become, and whether the focus has stayed the same since it started
NoTrack ==
  [phase |-> "none", kind |-> "", name |-> "", index |-> 0, expect |-> <<>>,
   stable |-> TRUE, msg |-> NoId]

TrackEvent(tr, e, msg) ==
  IF e.type = "content_block_start"
  THEN [phase |-> "open", kind |-> e.kind, name |-> e.name, index |-> e.index,
        expect |-> e.text, stable |-> TRUE, msg |-> msg]
  ELSE IF e.type = "content_block_delta" /\ tr.phase = "open"
  THEN [tr EXCEPT !.expect = @ \o e.text]
  ELSE IF e.type = "content_block_stop" /\ tr.phase = "open"
  THEN [tr EXCEPT !.phase = "stopped"]
  ELSE IF e.type = "error" THEN tr
  ELSE NoTrack

\* history: the messages and the number of blocks that the events of a session started
IdealEvent(ideal, e, msg) ==
  IF e.type = "message_start" THEN Append(ideal, [id |-> msg, blocks |-> 0])
  ELSE IF e.type = "content_block_start" /\ ideal # <<>>
  THEN [ideal EXCEPT ![Len(ideal)].blocks = @ + 1]
  ELSE ideal

\* history after envelope e is handled
HistEvent(h, e, id) ==
  LET s == e.sessionId
      msg == IF e.type = "message_start" THEN id ELSE h.msgOf[s]
  IN [h EXCEPT !.handled = @ + 1,
               !.lastEvent = s,
               !.last = e,
               !.msgOf[s] = msg,
               !.thread[s] = IF e.type = "system" /\ e.kind = "init" /\ e.name # NoThread
                             THEN e.name ELSE @,
               !.inflight[s] = IF e.type = "message_start" THEN TRUE
                               ELSE IF e.type = "result" THEN FALSE ELSE @,
               !.track[s] = TrackEvent(@, e, msg),
               !.ideal[s] = IdealEvent(@, e, msg)]

Handled(e, id) ==
  /\ hist.handled < MaxHandled
  /\ CommitApp(handleStreamEvent(App, e, id))
  /\ hist' = HistEvent(hist, e, id)

\* generateId() returns a string that it has not returned before
FreshId == nextId + 1

\* the next envelope of the turn of session s arrives on 'claude:stream'
StreamEvent(s) ==
  /\ cli[s] < Len(Script(s))
  /\ Handled(Script(s)[cli[s] + 1], FreshId)
  /\ cli' = [cli EXCEPT ![s] = @ + 1]
  /\ UNCHANGED procVars

\* an error envelope for session s arrives
ErrorEnvelope(s) ==
  /\ Handled(AppEvent(s, "error", NoIndex, "", <<>>, "", 0), FreshId)
  /\ UNCHANGED <<cli, procVars>>

\* a frame of the render loop of a QuantumStreamRenderer that renders count characters
RendererFrame(s, i, count) ==
  /\ refs[s].quantumRenderer[i].rafId
  /\ count \in 1..Len(refs[s].quantumRenderer[i].buffer)
  /\ CommitApp(rendererRender(App, s, i, count))
  /\ UNCHANGED <<cli, hist, procVars>>

\* a tick of the tool JSON flush timer of session s
FlushTimerTick(s) ==
  /\ refs[s].toolJsonFlushTimer.active
  /\ App # flushToolJson(App, s, refs[s].toolJsonFlushTimer.currentSessionId)
  /\ CommitApp(flushToolJson(App, s, refs[s].toolJsonFlushTimer.currentSessionId))
  /\ UNCHANGED <<cli, hist, procVars>>

\* the user selects session t: handleSelectSession of the current render runs
SelectSession(t) ==
  /\ hist.requested < MaxRequests
  /\ CommitApp(handleSelectSession(App, t, Closure(App)))
  /\ hist' = [hist EXCEPT !.requested = @ + 1, !.lastRequested = t]
  /\ UNCHANGED <<cli, procVars>>

\* saveSession() returns to call c, which restores the target and awaits the status
SaveSessionDone(c) ==
  /\ c \in 1..Len(calls)
  /\ calls[c].pc = "saveSession"
  /\ CommitApp(restoreSession(App, c))
  /\ hist' = [hist EXCEPT !.track =
                [s \in SessionIds |->
                   IF calls[c].target # ui.currentSessionId /\ hist.track[s].phase = "open"
                   THEN [hist.track[s] EXCEPT !.stable = FALSE]
                   ELSE hist.track[s]]]
  /\ UNCHANGED <<cli, procVars>>

\* claude.status() returns to call c, which runs its finally block
StatusDone(c) ==
  /\ c \in 1..Len(calls)
  /\ calls[c].pc = "status"
  /\ CommitApp(releaseLock(App, c))
  /\ UNCHANGED <<cli, hist, procVars>>

\* saveSession() or claude.status() rejects in call c: the catch block shows the
\* error toast, then the finally block runs
SwitchRejects(c) ==
  /\ c \in 1..Len(calls)
  /\ calls[c].pc \in {"saveSession", "status"}
  /\ CommitApp(releaseLock(App, c))
  /\ UNCHANGED <<cli, hist, procVars>>

\* the timeout set by a finally block fires: the handleSelectSession of the
\* render in which the finished call was made runs for the queued session
ReplayTimeout ==
  /\ timeouts # <<>>
  /\ CommitApp(handleSelectSession([App EXCEPT !.timeouts = Tail(@)],
                                   Head(timeouts).target, Head(timeouts).env))
  /\ UNCHANGED <<cli, hist, procVars>>

NewHist ==
  [handled |-> 0, requested |-> 0, lastRequested |-> NoSession, lastEvent |-> NoSession,
   last |-> NoAppEvent,
   msgOf |-> [s \in SessionIds |-> NoId],
   inflight |-> [s \in SessionIds |-> FALSE],
   thread |-> [s \in SessionIds |-> NoThread],
   track |-> [s \in SessionIds |-> NoTrack],
   ideal |-> [s \in SessionIds |-> <<>>]]

\* sessions A and B were both opened before, session focused is on screen
AppStarted(focused) ==
  /\ ui = NewUi(focused)
  /\ refs = [s \in SessionIds |-> NewSessionRefs]
  /\ nextId = 0
  /\ sessionSwitchLockRef = FALSE
  /\ sessionSwitchQueueRef = NoSession
  /\ calls = <<>>
  /\ timeouts = <<>>
  /\ sessions = NewStore.sessions
  /\ store = NewStore
  /\ cli = [s \in SessionIds |-> 0]
  /\ hist = NewHist

InitApp ==
  /\ processes = [s \in SessionIds |-> 0]
  /\ instances = <<>>
  /\ os = <<>>
  /\ cliInstalled = TRUE
  /\ immediateQ = <<>>
  /\ channel = <<>>
  /\ events = 0
  /\ lastOp = NoOp
  /\ \E focused \in SessionIds : AppStarted(focused)

NextApp ==
  \/ \E s \in SessionIds : StreamEvent(s)
  \/ \E s \in SessionIds : ErrorEnvelope(s)
  \/ \E s \in SessionIds, i \in BlockIndices, count \in 1..2 : RendererFrame(s, i, count)
  \/ \E s \in SessionIds : FlushTimerTick(s)
  \/ \E t \in SessionIds : SelectSession(t)
  \/ \E c \in 1..MaxRequests : SaveSessionDone(c)
  \/ \E c \in 1..MaxRequests : StatusDone(c)
  \/ ReplayTimeout

SpecApp == InitApp /\ [][NextApp]_vars

(***************************************************************************)
(* The same program later in the two turns: the first MidTurn envelopes of *)
(* each session were handled before the user does anything. The history    *)
(* counts the envelopes that are handled from then on; no error envelope   *)
(* arrives.                                                                *)
(***************************************************************************)
RECURSIVE HandleAll(_, _)
HandleAll(r, es) ==
  IF es = <<>> THEN r
  ELSE HandleAll([x |-> handleStreamEvent(r.x, Head(es), r.x.nextId + 1),
                  hist |-> HistEvent(r.hist, Head(es), r.x.nextId + 1)], Tail(es))

InitMid ==
  \E focused \in SessionIds :
    LET x0 == [ui |-> NewUi(focused), refs |-> [s \in SessionIds |-> NewSessionRefs],
               nextId |-> 0, sessionSwitchLockRef |-> FALSE,
               sessionSwitchQueueRef |-> NoSession, calls |-> <<>>, timeouts |-> <<>>,
               sessions |-> NewStore.sessions, store |-> NewStore]
        r == HandleAll([x |-> x0, hist |-> NewHist],
                       SubSeq(Script("A"), 1, MidTurn) \o SubSeq(Script("B"), 1, MidTurn))
    IN /\ processes = [s \in SessionIds |-> 0]
       /\ instances = <<>>
       /\ os = <<>>
       /\ cliInstalled = TRUE
       /\ immediateQ = <<>>
       /\ channel = <<>>
       /\ events = 0
       /\ lastOp = NoOp
       /\ ui = r.x.ui
       /\ refs = r.x.refs
       /\ nextId = r.x.nextId
       /\ sessionSwitchLockRef = r.x.sessionSwitchLockRef
       /\ sessionSwitchQueueRef = r.x.sessionSwitchQueueRef
       /\ calls = r.x.calls
       /\ timeouts = r.x.timeouts
       /\ sessions = r.x.sessions
       /\ store = r.x.store
       /\ cli = [s \in SessionIds |-> MidTurn]
       /\ hist = [r.hist EXCEPT !.handled = 0]

\* the rest of the two turns, without error envelopes
NextMid ==
  \/ \E s \in SessionIds : StreamEvent(s)
  \/ \E s \in SessionIds, i \in BlockIndices, count \in 1..2 : RendererFrame(s, i, count)
  \/ \E s \in SessionIds : FlushTimerTick(s)
  \/ \E t \in SessionIds : SelectSession(t)
  \/ \E c \in 1..MaxRequests : SaveSessionDone(c)
  \/ \E c \in 1..MaxRequests : StatusDone(c)
  \/ ReplayTimeout

SpecMid == InitMid /\ [][NextMid]_vars

(***************************************************************************)
(* The reducer under any order of turn events: each session may start      *)
(* several messages, generateId() returns any string of MessageIds.        *)
(***************************************************************************)
\* Math.random().toString(36).substring(2, 15): the strings it may return
MessageIds == 1..MaxIds
\* the uuid of an assistant record: no string that generateId() returns
Uuid == MaxIds + 1

TurnEvents(s) ==
  { AppEvent(s, "message_start", NoIndex, "", <<>>, "", 0),
    AppEvent(s, "content_block_start", 0, "text", <<>>, "", 0),
    AppEvent(s, "result", NoIndex, "", <<>>, "", 1),
    AppEvent(s, "result", NoIndex, "", <<>>, "", 2),
    ResultNoUsage(s, 2),
    AppEvent(s, "assistant", NoIndex, "text", <<"h", "i">>, "", 0) }

\* an envelope for session s arrives; id is the string that generateId() returns
\* when the event is a message_start
TurnEvent(s, e, id) ==
  /\ hist.handled < MaxTurnEvents
  /\ e.type # "message_start" => id = 1
  /\ Handled(e, IF e.type = "assistant" THEN Uuid ELSE id)
  /\ UNCHANGED <<cli, procVars>>

NextTurns ==
  \/ \E s \in SessionIds, id \in MessageIds : \E e \in TurnEvents(s) : TurnEvent(s, e, id)
  \/ \E t \in SessionIds : SelectSession(t)
  \/ \E c \in 1..MaxRequests : SaveSessionDone(c)
  \/ \E c \in 1..MaxRequests : StatusDone(c)
  \/ ReplayTimeout

SpecTurns == InitApp /\ [][NextTurns]_vars

(***************************************************************************)
(* The thread ids: each subprocess start is answered by a system/init      *)
(* event with a thread id, for the focused or a background session, while  *)
(* the user switches sessions.                                             *)
(***************************************************************************)
SystemInit(s, t) ==
  /\ Handled(AppEvent(s, "system", NoIndex, "init", <<>>, t, 0), FreshId)
  /\ UNCHANGED <<cli, procVars>>

NextInit ==
  \/ \E s \in SessionIds, t \in ThreadIds : SystemInit(s, t)
  \/ \E t \in SessionIds : SelectSession(t)
  \/ \E c \in 1..MaxRequests : SaveSessionDone(c)
  \/ \E c \in 1..MaxRequests : StatusDone(c)
  \/ ReplayTimeout

SpecInit == InitApp /\ [][NextInit]_vars

\* session switches whose persistence and status calls may reject
NextSwitch ==
  \/ \E s \in SessionIds, t \in ThreadIds : SystemInit(s, t)
  \/ \E t \in SessionIds : SelectSession(t)
  \/ \E c \in 1..MaxRequests : SaveSessionDone(c)
  \/ \E c \in 1..MaxRequests : StatusDone(c)
  \/ \E c \in 1..MaxRequests : SwitchRejects(c)
  \/ ReplayTimeout

\* the calls that a switch awaits settle, and a timeout that was set fires
SpecSwitch ==
  /\ InitApp /\ [][NextSwitch]_vars
  /\ \A c \in 1..MaxRequests :
       WF_vars(SaveSessionDone(c) \/ StatusDone(c) \/ SwitchRejects(c))
  /\ WF_vars(ReplayTimeout)


InitProc ==
  /\ processes = [s \in SessionIds |-> 0]
  /\ instances = <<>>
  /\ os = <<>>
  /\ cliInstalled \in BOOLEAN
  /\ immediateQ = <<>>
  /\ channel = <<>>
  /\ events = 0
  /\ lastOp = NoOp
  /\ AppStarted("A")

\* the batching path: one session, restarts, every kind of stdout line
NextProc ==
  \/ MgrStart("A", ProjectDir)
  \/ MgrStop("A")
  \/ \E pid \in Pids, chunk \in ProcChunks : StdoutData(pid, chunk)
  \/ \E pid \in Pids : ProcClose(pid)
  \/ \E n \in InstNos : DeltaTimerTick(n)
  \/ RunImmediate

SpecProc == InitProc /\ [][NextProc]_vars

\* the event loop keeps running: a set interval fires again and again and a
\* setImmediate callback runs in the iteration that queued it
SpecProcFair ==
  /\ InitProc /\ [][NextProc]_vars
  /\ \A n \in InstNos : WF_vars(DeltaTimerTick(n))
  /\ WF_vars(RunImmediate)

\* what a subprocess writes in one chunk in the runs of the registry: a fragment
\* line or a structural line
RegChunks == {<<JsonDelta(0, <<"a">>), NL>>, <<BlockStop(0), NL>>}

\* the registry: every call for two sessions, subprocesses that write and exit,
\* heartbeats and flush timers
NextReg ==
  \/ \E s \in SessionIds : MgrStart(s, ProjectDir)
  \/ \E s \in SessionIds : MgrSend(s)
  \/ \E s \in SessionIds : MgrStop(s)
  \/ MgrStopAll
  \/ \E s \in SessionIds : MgrRemoveSession(s)
  \/ \E pid \in Pids, chunk \in RegChunks : StdoutData(pid, chunk)
  \/ \E pid \in Pids : ProcClose(pid)
  \/ \E n \in InstNos : HeartbeatTick(n)
  \/ \E n \in InstNos : DeltaTimerTick(n)
  \/ RunImmediate
  \/ InstallCli

SpecReg == InitProc /\ [][NextReg]_vars

(***************************************************************************)
(* The working directory: session A is started, and restarted, with any    *)
(* requested path.                                                         *)
(***************************************************************************)
RequestedPaths ==
  UNION {[1..n -> SegmentNames] : n \in 0..MaxDepth}

StartIn(cwd) ==
  /\ Len(os) < MaxSpawns
  /\ MgrStart("A", cwd)

NextCwd ==
  \/ \E cwd \in RequestedPaths : StartIn(cwd)
  \/ \E pid \in Pids : ProcClose(pid)
  \/ RunImmediate

SpecCwd == InitProc /\ [][NextCwd]_vars

(***************************************************************************)
(* The stdout 'data' handler alone: one started ClaudeProcess, a stream of *)
(* characters cut into chunks of one or two characters at any place.       *)
(***************************************************************************)
FramerAlphabet == {Ch("a"), SP, CR, NL, HeadOf(ResultEvent), TailOf(ResultEvent)}

FramerChunks == {<<c>> : c \in FramerAlphabet} \cup {<<c, d>> : c \in FramerAlphabet, d \in FramerAlphabet}

InitFramer ==
  LET m == start([p |-> NewClaudeProcess(1, "A", TRUE), q |-> <<>>, os |-> <<>>], ProjectDir, TRUE) IN
    /\ processes = [s \in SessionIds |-> IF s = "A" THEN 1 ELSE 0]
    /\ instances = <<m.p>>
    /\ os = m.os
    /\ cliInstalled = TRUE
    /\ immediateQ = <<>>
    /\ channel = m.q
    /\ events = 0
    /\ lastOp = Op("start", "A", 1)
  /\ AppStarted("A")

FramerData(chunk) ==
  /\ Len(os[1].out) + Len(chunk) <= MaxStream
  /\ StdoutData(1, chunk)

NextFramer ==
  \/ \E chunk \in FramerChunks : FramerData(chunk)
  \/ RunImmediate

SpecFramer == InitFramer /\ [][NextFramer]_vars

(***************************************************************************)
(* One QuantumStreamRenderer under any order of the calls of its public    *)
(* methods and of the frames of its render loop: the renderer that session *)
(* A, focused, made for text block 0 of its message in flight.             *)
(***************************************************************************)
QsrAlphabet == {"a", " "}

QsrChunks == {<<c>> : c \in QsrAlphabet} \cup {<<c, d>> : c \in QsrAlphabet, d \in QsrAlphabet}

Qsr == refs["A"].quantumRenderer[0]

RECURSIVE ConcatTexts(_)
ConcatTexts(calls_) ==
  IF calls_ = <<>> THEN <<>> ELSE calls_[1].text \o ConcatTexts(Tail(calls_))

InitQsr ==
  LET x0 == [ui |-> NewUi("A"), refs |-> [s \in SessionIds |-> NewSessionRefs],
             nextId |-> 0, sessionSwitchLockRef |-> FALSE,
             sessionSwitchQueueRef |-> NoSession, calls |-> <<>>, timeouts |-> <<>>,
             sessions |-> NewStore.sessions, store |-> NewStore]
      x1 == handleStreamEvent(x0, AppEvent("A", "message_start", NoIndex, "", <<>>, "", 0), 1)
      x2 == handleStreamEvent(x1, AppEvent("A", "content_block_start", 0, "text", <<>>, "", 0), 1)
      x3 == getQuantumRenderer(x2, "A", 0)
  IN /\ processes = [s \in SessionIds |-> 0]
     /\ instances = <<>>
     /\ os = <<>>
     /\ cliInstalled = TRUE
     /\ immediateQ = <<>>
     /\ channel = <<>>
     /\ events = 0
     /\ lastOp = NoOp
     /\ ui = x3.ui
     /\ refs = x3.refs
     /\ nextId = x3.nextId
     /\ sessionSwitchLockRef = x3.sessionSwitchLockRef
     /\ sessionSwitchQueueRef = x3.sessionSwitchQueueRef
     /\ calls = x3.calls
     /\ timeouts = x3.timeouts
     /\ sessions = x3.sessions
     /\ store = x3.store
     /\ cli = [s \in SessionIds |-> 0]
     /\ hist = NewHist

\* (history: lastOp.pid is the number of characters that a frame was to render)
QsrCall(op, count, x) ==
  /\ CommitApp(x)
  /\ lastOp' = Op(op, "A", count)
  /\ UNCHANGED <<processes, instances, os, cliInstalled, immediateQ, channel, events,
                 cli, hist>>

\* renderer.onData(chunk)
QsrOnData(chunk) ==
  /\ Len(Qsr.buffer) + Len(ConcatTexts(Qsr.rendered)) + Len(chunk) <= MaxQsrData
  /\ QsrCall("onData", 0, rendererOnData(App, "A", 0, chunk))

\* a frame of the render loop, where calculateRenderAmount returns count
QsrFrame(count) ==
  /\ Qsr.rafId
  /\ count \in 1..Len(Qsr.buffer)
  /\ QsrCall("frame", count, rendererRender(App, "A", 0, count))

\* renderer.flush()
QsrFlush ==
  /\ Qsr.exists
  /\ QsrCall("flush", 0, rendererFlush(App, "A", 0))

\* renderer.destroy()
QsrDestroy ==
  /\ Qsr.exists
  /\ QsrCall("destroy", 0, rendererDestroy(App, "A", 0))

NextQsr ==
  \/ \E chunk \in QsrChunks : QsrOnData(chunk)
  \/ \E count \in 1..MaxQsrData : QsrFrame(count)
  \/ QsrFlush
  \/ QsrDestroy

SpecQsr == InitQsr /\ [][NextQsr]_vars

(***************************************************************************)
(* The render loop of one QuantumStreamRenderer with its modes: the        *)
(* display's refresh rate is detected at some time, data arrives in chunks *)
(* of several sizes, and the frames render what calculateRenderAmount      *)
(* says. flush() and destroy() are not called.                             *)
(***************************************************************************)
MaxDrainChunks == 1   \* calls of onData in one run of SpecDrain
MaxOptimal == 3       \* largest Math.ceil(optimal) of a frame in smooth mode

\* commonRates of detectRefreshRate
RefreshRates == {60, 75, 120, 144, 165, 240, 360}

\* the lengths of the chunks
DrainChunkLens == {1, 3, 13, 73, 101}

DrainCall(op, count, x) ==
  /\ CommitApp(x)
  /\ lastOp' = Op(op, "A", count)
  /\ UNCHANGED <<processes, instances, os, cliInstalled, immediateQ, channel, cli, hist>>

\* renderer.onData(chunk) with a chunk of n characters
DrainOnData(n) ==
  /\ events < MaxDrainChunks
  /\ events' = events + 1
  /\ DrainCall("onData", 0, rendererOnData(App, "A", 0, [k \in 1..n |-> "a"]))

\* the promise of detectRefreshRate resolves: config.targetFPS = rate
DetectRate(rate) ==
  /\ Qsr.targetFPS = 60 /\ rate # 60
  /\ events' = events
  /\ DrainCall("detect", 0, [App EXCEPT !.refs["A"].quantumRenderer[0].targetFPS = rate])

\* a frame of the render loop; jank: the frame came late
DrainFrame(jank, optimal) ==
  /\ Qsr.rafId
  /\ events' = events
  /\ DrainCall("frame", charsToRender(IF jank THEN onJankDetected(Qsr) ELSE Qsr, optimal),
               rendererLoop(App, "A", 0, jank, optimal))

\* a timeout of onJankDetected fires
JankRecover ==
  /\ Qsr.recover > 0
  /\ events' = events
  /\ DrainCall("recover", 0, [App EXCEPT !.refs["A"].quantumRenderer[0] = jankRecover(@)])

NextDrain ==
  \/ \E n \in DrainChunkLens : DrainOnData(n)
  \/ \E rate \in RefreshRates : DetectRate(rate)
  \/ \E jank \in BOOLEAN, optimal \in 1..MaxOptimal : DrainFrame(jank, optimal)
  \/ JankRecover

\* the render loop keeps running: requestAnimationFrame calls it again and again
SpecDrain ==
  /\ InitQsr /\ [][NextDrain]_vars
  /\ WF_vars(\E optimal \in 1..MaxOptimal : DrainFrame(FALSE, optimal))

(***************************************************************************)
(* Session A is focused and never left: its envelopes arrive in any order, *)
(* the auto-save effect saves it, and the user may stop the generation.    *)
(* The main process handles the 'sessions:save' invocations in order, and  *)
(* the renderer receives their results in order.                           *)
(***************************************************************************)
\* what the subprocess of session s may send: a new message, the start of a text
\* block, a text delta, or the result of a turn with one of two costs
SaveEvents(s) ==
  { AppEvent(s, "message_start", NoIndex, "", <<>>, "", 0),
    AppEvent(s, "content_block_start", 0, "text", <<>>, "", 0),
    AppEvent(s, "content_block_delta", 0, "text_delta", <<"h", "i">>, "", 0),
    AppEvent(s, "result", NoIndex, "", <<>>, "", 1),
    AppEvent(s, "result", NoIndex, "", <<>>, "", 2) }

\* an envelope of session s is handled, then the effects of the new render run
SaveTurnEvent(s, e) ==
  /\ hist.handled < MaxSaveEvents
  /\ CommitApp(autoSave(App, handleStreamEvent(App, e, FreshId)))
  /\ hist' = [hist EXCEPT !.handled = @ + 1, !.lastEvent = s, !.last = e]
  /\ UNCHANGED <<cli, procVars>>

\* ipcMain.handle('sessions:save'): the entry of the session is replaced
SessionsSave ==
  /\ store.requests # <<>>
  /\ LET session == Head(store.requests)
         trimmed == [store.sessions EXCEPT ![session.id] = session.totalCost]
     IN CommitApp([App EXCEPT !.store.sessions = trimmed,
                              !.store.requests = Tail(@),
                              !.store.replies = Append(@, trimmed),
                              !.store.saved[session.id] = Append(@, session.totalCost)])
  /\ UNCHANGED <<cli, hist, procVars>>

\* saveSession after "await window.electronAPI.sessions.save(session)"
SaveReply ==
  /\ store.replies # <<>>
  /\ CommitApp([App EXCEPT !.sessions = Head(store.replies),
                           !.store.replies = Tail(@)])
  /\ UNCHANGED <<cli, hist, procVars>>

\* the user stops the generation: handleStopGeneration of the current render runs
StopGeneration ==
  /\ hist.requested < MaxRequests
  /\ CommitApp(handleStopGeneration(App, Closure(App)))
  /\ hist' = [hist EXCEPT !.requested = @ + 1]
  /\ UNCHANGED <<cli, procVars>>

\* claude.stop() returns to call c of handleStopGeneration
StopGenerationDone(c) ==
  /\ c \in 1..Len(calls)
  /\ calls[c].pc = "stop"
  /\ CommitApp(stopGenerationDone(App, c))
  /\ UNCHANGED <<cli, hist, procVars>>

InitSave ==
  /\ processes = [s \in SessionIds |-> 0]
  /\ instances = <<>>
  /\ os = <<>>
  /\ cliInstalled = TRUE
  /\ immediateQ = <<>>
  /\ channel = <<>>
  /\ events = 0
  /\ lastOp = NoOp
  /\ AppStarted("A")

NextSave ==
  \/ \E e \in SaveEvents("A") : SaveTurnEvent("A", e)
  \/ SessionsSave
  \/ SaveReply
  \/ \E i \in BlockIndices, count \in 1..2 : RendererFrame("A", i, count)
  \/ StopGeneration
  \/ \E c \in 1..MaxRequests : StopGenerationDone(c)

SpecSave == InitSave /\ [][NextSave]_vars

(***************************************************************************)
(* Claims.                                                                 *)
(***************************************************************************)
\* every envelope queued or sent so far, in the order of delivery
out == channel \o immediateQ

IsDeltaLine(line) == JsonParses(line) /\ JsonParse(line).dtype = "input_json_delta"
IsStructuralLine(line) == JsonParses(line) /\ JsonParse(line).dtype # "input_json_delta"
IsBatched(e) == e.lines # {} /\ e.data.dtype = "input_json_delta"
IsStructural(e) == e.lines # {} /\ e.data.dtype # "input_json_delta"


\* the message list, task list, token/cost info and flags of session s: those on
\* screen when s is focused, those of the ref maps when it is not
SessionMessages(s) == IF ui.currentSessionId = s THEN ui.messages ELSE refs[s].messages
SessionTodos(s) == IF ui.currentSessionId = s THEN ui.todos ELSE refs[s].todos
\* every piece of state of session s
SessionState(s) == <<refs[s], IF ui.currentSessionId = s THEN <<ui>> ELSE <<>> >>

\* the step handles an envelope
IsHandling == hist'.handled = hist.handled + 1

\* ---- C1 ----
\* C1: a step that handles an envelope tagged with one session leaves every piece
\* of state of every other session unchanged: its entries in all the per-session
\* ref maps and, when it is the focused session, the state on screen
C1_Isolation ==
  [][IsHandling =>
       \A s \in SessionIds : s # hist'.lastEvent => SessionState(s)' = SessionState(s)]_vars

\* ---- C2 ----
\* C2: when start(id) is called twice in succession (no other callback in between
\* but the deferred sends) and the first call spawned a subprocess p1, then after
\* the second call the registry still maps id to the same single ClaudeProcess
\* object, that object is bound to a new live subprocess p2 spawned by the second
\* call, no other subprocess is bound to an object of id, and p1 has been sent
\* the termination signal.
C2_After(first, second) ==
  LET id == second.sid
      n == processes'[id]
      p1 == first.pid
      p2 == second.pid
  IN /\ n # 0
     /\ n = processes[id]
     /\ instances'[n].sessionId = id
     /\ p2 # 0
     /\ p2 # p1
     /\ instances'[n].process = p2
     /\ os'[p2].open /\ ~os'[p2].signalled /\ os'[p2].owner = n
     /\ \A k \in 1..Len(instances') :
          (instances'[k].sessionId = id /\ instances'[k].process # 0) => k = n
     /\ p1 # 0 /\ os'[p1].signalled

C2_TwoStarts ==
  /\ events' = events + 1
  /\ lastOp.op = "start" /\ lastOp'.op = "start" /\ lastOp'.sid = lastOp.sid

C2_StartTwice ==
  [][(C2_TwoStarts /\ lastOp.pid # 0) => C2_After(lastOp, lastOp')]_vars

\* C2 witness: the second of two successive start calls for A has run; subprocess 1
\* was spawned by the first and signalled by the second, subprocess 2 is bound
C2_Witness ==
  /\ lastOp = Op("start", "A", 2)
  /\ Len(os) = 2 /\ os[1].signalled /\ os[1].open /\ os[1].owner = os[2].owner
  /\ processes["A"] # 0 /\ instances[processes["A"]].process = 2

\* ---- C3 ----
NLs(s) == {i \in 1..Len(s) : s[i] = NL}
\* the line of stream s that the newline at position i terminates
LineEndingAt(s, i) == SubSeq(s, Max({0} \cup {j \in NLs(s) : j < i}) + 1, i - 1)
RECURSIVE TerminatedLinesUpTo(_, _)
TerminatedLinesUpTo(s, i) ==
  IF i = 0 THEN <<>>
  ELSE TerminatedLinesUpTo(s, i - 1) \o (IF s[i] = NL THEN <<LineEndingAt(s, i)>> ELSE <<>>)
\* the newline-terminated lines of stream s, in order
TerminatedLines(s) == TerminatedLinesUpTo(s, Len(s))
AfterLastNewline(s) == SubSeq(s, Max({0} \cup NLs(s)) + 1, Len(s))
WithoutTrailingCR(l) == IF l # <<>> /\ l[Len(l)] = CR THEN SubSeq(l, 1, Len(l) - 1) ELSE l
IsBlank(l) == \A i \in 1..Len(l) : IsWhite(l[i])
NotBlank(l) == ~IsBlank(l)
MapWithoutCR(ls) == [k \in 1..Len(ls) |-> WithoutTrailingCR(ls[k])]

BlockIndexOf(line) == Coalesce(JsonParse(line).index, 0)

\* the input_json_delta lines of object n for block index i that arrived after
\* g flushes and before the next one
FragmentLines(n, i, g) ==
  {j \in 1..Len(instances[n].handled) :
     /\ IsDeltaLine(instances[n].handled[j])
     /\ BlockIndexOf(instances[n].handled[j]) = i
     /\ instances[n].flushOf[j] = g}

RECURSIVE ConcatFragments(_, _)
ConcatFragments(n, F) ==
  IF F = {} THEN <<>>
  ELSE JsonParse(instances[n].handled[Min(F)]).pj \o ConcatFragments(n, F \ {Min(F)})

\* the batched envelopes that flush number g of object n produced for index i
FlushedFor(n, i, g) ==
  {p \in 1..Len(out) : IsBatched(out[p]) /\ out[p].obj = n /\ out[p].flush = g
                         /\ out[p].data.index = i}

AllBlockIndices == {0, 1}

\* C5 (as stated): every flush emits, for every index with fragments f1..fk
\* received since the previous flush, one stream_event carrying f1+...+fk
C5_OneEventPerIndex ==
  \A n \in 1..Len(instances) : \A g \in 1..instances[n].flushes : \A i \in AllBlockIndices :
    LET F == FragmentLines(n, i, g - 1) IN
      F # {} =>
        /\ Cardinality(FlushedFor(n, i, g)) = 1
        /\ \A p \in FlushedFor(n, i, g) : out[p].data.pj = ConcatFragments(n, F)

\* C5 (amended): every flush emits, for every index whose fragments f1..fk received
\* since the previous flush have a non-empty concatenation, exactly one stream_event
\* for that index with delta type input_json_delta and partial_json = f1+...+fk in
\* arrival order; for an index whose fragments are all empty it emits nothing
C5_ConcatInOrder ==
  \A n \in 1..Len(instances) : \A g \in 1..instances[n].flushes : \A i \in AllBlockIndices :
    LET F == FragmentLines(n, i, g - 1) IN
      IF ConcatFragments(n, F) # <<>>
      THEN /\ Cardinality(FlushedFor(n, i, g)) = 1
           /\ \A p \in FlushedFor(n, i, g) :
                /\ out[p].data.pj = ConcatFragments(n, F)
                /\ out[p].lines = F
                /\ out[p].type = "stream_event"
                /\ out[p].data.inner = "content_block_delta"
      ELSE FlushedFor(n, i, g) = {}

\* C5 witness: two different non-empty fragments for one index were flushed as one event
C5_Witness ==
  \E p \in 1..Len(channel) :
    /\ IsBatched(channel[p])
    /\ Cardinality(channel[p].lines) >= 2
    /\ channel[p].data.pj \in {<<"a", "b">>, <<"b", "a">>}

\* ---- C6 ----
\* the block that the tracked events of session s built: it is in the message that
\* the last message_start of s made, at the index of its content_block_start
TrackedBlocks(s) ==
  {m.content[hist.track[s].index + 1] :
     m \in {n \in Range(SessionMessages(s)) :
              n.id = hist.track[s].msg /\ HasBlock(n.content, hist.track[s].index)}}

\* the step handles the content_block_stop of the tracked block of session s
IsBlockStop(s) ==
  IsHandling /\ hist.track[s].phase = "open" /\ hist'.track[s].phase = "stopped"

TextBlockDone(s) ==
  /\ TrackedBlocks(s) # {}
  /\ \A b \in TrackedBlocks(s) : b.content = hist.track[s].expect /\ b.isComplete

\* C6: when the content_block_stop of a text or thinking block of a session is
\* handled and the focus has not changed since its content_block_start, the block
\* is in the session's message list, complete, and its content is the initial text
\* followed by the deltas in order
C6_TextBlockComplete ==
  [][\A s \in SessionIds :
       (IsBlockStop(s) /\ hist'.track[s].kind \in {"text", "thinking"} /\ hist'.track[s].stable)
         => TextBlockDone(s)']_vars

\* ---- C7 ----
ToolBlockDone(s) ==
  LET value == ParseToolJson(hist.track[s].expect) IN
    /\ TrackedBlocks(s) # {}
    /\ \A b \in TrackedBlocks(s) :
         b.toolInput = value /\ b.isComplete /\ b.toolStatus = "complete"
    /\ (hist.track[s].name = "TodoWrite" /\ value.hasTodos) => SessionTodos(s) = value.todos

\* C7: when the content_block_stop of a tool_use block is handled and the
\* input_json_delta fragments of the block concatenate to valid JSON, the block is
\* in the session's message list, complete, with toolStatus 'complete' and toolInput
\* the parsed concatenation, and for TodoWrite the session's task list is the parsed
\* todos
C7_ToolInputParsed ==
  [][\A s \in SessionIds :
       (IsBlockStop(s) /\ hist'.track[s].kind = "tool_use"
          /\ ToolJsonParses(hist'.track[s].expect))
         => ToolBlockDone(s)']_vars

\* ---- C8 ----
\* C8: at most one call of handleSelectSession is between taking and releasing the
\* lock, and the lock is held exactly while there is one: a request made meanwhile
\* starts no call
C8_OneSwitchAtATime ==
  /\ Len(calls) <= 1
  /\ sessionSwitchLockRef <=> Len(calls) = 1

\* C8 witness: a second request arrived after the first call restored its target
\* and before it released the lock; it is queued and no second call runs
C8_Witness ==
  /\ hist.requested = 2
  /\ Len(calls) = 1 /\ calls[1].pc = "status"
  /\ sessionSwitchLockRef
  /\ sessionSwitchQueueRef # NoSession

\* ---- C9 ----
\* no call of handleSelectSession is in flight and no replay is scheduled
NoSwitchPending == calls = <<>> /\ timeouts = <<>>

\* C9: once the switches have completed, the pending slot is empty and the focused
\* session is the one requested last
C9_LatestRequestWins ==
  (NoSwitchPending /\ hist.lastRequested # NoSession) =>
    /\ sessionSwitchQueueRef = NoSession
    /\ ui.currentSessionId = hist.lastRequested

\* ---- C10 ----
\* C10: when a session is focused and no switch is in progress, every message that
\* a message_start of the session started is in the message list on screen, with
\* as many blocks as its content_block_start events started
C10_NoProgressLost ==
  NoSwitchPending =>
    \A k \in 1..Len(hist.ideal[ui.currentSessionId]) :
      \E j \in 1..Len(ui.messages) :
        /\ ui.messages[j].id = hist.ideal[ui.currentSessionId][k].id
        /\ Len(ui.messages[j].content) = hist.ideal[ui.currentSessionId][k].blocks

\* ---- C11 ----
\* the step is a call of ClaudeProcessManager.send
IsSend == events' = events + 1 /\ lastOp'.op = "send"
\* the registry has no entry for id, or the object of id has no bound subprocess
NotRunning(id) == processes[id] = 0 \/ instances[processes[id]].process = 0
NotRunningErrors ==
  {"No Claude process running for this session. Please restart.",
   "Claude process not running. Please restart."}

IsStop == events' = events + 1 /\ lastOp'.op = "stop" /\ processes[lastOp'.sid] # 0
\* the object has no timer, no buffered state and no bound subprocess
TornDown(p) ==
  /\ ~p.heartbeatInterval /\ ~p.deltaFlushTimer
  /\ p.deltaBuffer = <<>> /\ p.stdoutBuffer = <<>>
  /\ p.process = 0

\* C12: after stop() the object has no heartbeat timer, no delta flush timer, an
\* empty delta buffer, an empty stdout buffer and no bound subprocess, whatever its
\* state was; a stop() that follows a stop() of the same object with no other
\* callback in between changes no state and queues or sends no envelope
C12_StopIdempotent ==
  [][IsStop =>
       /\ TornDown(instances'[processes[lastOp'.sid]])
       /\ (lastOp.op = "stop" /\ lastOp.sid = lastOp'.sid) =>
            /\ instances' = instances /\ os' = os /\ processes' = processes
            /\ immediateQ' = immediateQ /\ channel' = channel]_vars

\* C12 witness: subprocess 1 wrote a fragment line and the beginning of another
\* line, then stop ran twice (the four events are start, the chunk, stop, stop): the
\* fragment was flushed by the first stop, the subprocess signalled, the object is
\* torn down
C12_Witness ==
  /\ events = 4 /\ lastOp.op = "stop"
  /\ Len(os) = 1 /\ os[1].out = <<JsonDelta(0, <<"a">>), NL, Ch("x")>>
  /\ os[1].signalled
  /\ TornDown(instances[1])
  /\ \E i \in 1..Len(out) : IsBatched(out[i])

\* ---- C13 ----
IsPrefix(a, b) == Len(a) <= Len(b) /\ SubSeq(b, 1, Len(a)) = a
\* the list msgs has a message with this id that has a block at index i
HasBlockOf(msgs, id, i) ==
  \E k \in 1..Len(msgs) : msgs[k].id = id /\ HasBlock(msgs[k].content, i)
BlockOf(msgs, id, i) ==
  (CHOOSE m \in Range(msgs) : m.id = id /\ HasBlock(m.content, i)).content[i + 1]

\* what a step does to the blocks of session s: a complete block stays as it is,
\* an incomplete block's content grows or is replaced by a longer value
BlocksKept(s) ==
  \A k \in 1..Len(SessionMessages(s)) : \A i \in BlockIndices :
    LET msg == SessionMessages(s)[k] IN
      HasBlock(msg.content, i) =>
        /\ HasBlockOf(SessionMessages(s)', msg.id, i)
        /\ LET b == msg.content[i + 1]
               b2 == BlockOf(SessionMessages(s)', msg.id, i)
           IN IF b.isComplete
              THEN b2.isComplete /\ b2.content = b.content
                   /\ b2.toolInput = b.toolInput /\ b2.toolStatus = b.toolStatus
              ELSE IsPrefix(b.content, b2.content) \/ Len(b2.content) > Len(b.content)

\* C13: no step (an event, a tick of the tool JSON flush timer, a renderer frame, a
\* step of a session switch) changes the content, toolInput or toolStatus of a
\* block that is complete, and the content of an incomplete block only grows or
\* is replaced by a longer value
C13_CompleteIsFinal == [][\A s \in SessionIds : BlocksKept(s)]_vars

\* the same for the steps of a run in which the user has selected no session
C13_NoSwitch == [][hist'.requested = 0 => \A s \in SessionIds : BlocksKept(s)]_vars

\* ---- C14 ----
\* the step handles a message_start of session s (the only event that calls generateId)
IsMessageStart(s) == IsHandling /\ hist'.lastEvent = s /\ nextId' = nextId + 1

\* C14: a message_start of session s appends exactly one message to the list of s,
\* empty and streaming, whose id differs from the id of every message that was in
\* the list, and makes it the in-flight message of s with the block cursor at 0
C14_NewMessageId ==
  [][\A s \in SessionIds : IsMessageStart(s) =>
       LET old == SessionMessages(s)
           new == SessionMessages(s)'
       IN /\ Len(new) = Len(old) + 1
          /\ SubSeq(new, 1, Len(old)) = old
          /\ new[Len(new)].content = <<>> /\ new[Len(new)].isStreaming
          /\ \A k \in 1..Len(old) : old[k].id # new[Len(new)].id
          /\ refs'[s].currentMessageId = new[Len(new)].id
          /\ refs'[s].currentBlockIndex = 0]_vars

\* the rest of C14, whatever generateId() returns: one empty streaming message is
\* appended and becomes the in-flight message, the block cursor is 0
C14_NewMessage ==
  [][\A s \in SessionIds : IsMessageStart(s) =>
       LET old == SessionMessages(s)
           new == SessionMessages(s)'
       IN /\ Len(new) = Len(old) + 1
          /\ SubSeq(new, 1, Len(old)) = old
          /\ new[Len(new)].content = <<>> /\ new[Len(new)].isStreaming
          /\ refs'[s].currentMessageId = new[Len(new)].id
          /\ refs'[s].currentBlockIndex = 0]_vars

\* ---- C15 ----
\* the envelopes that the step queues or sends
NewEnvelopes == SubSeq(out', Len(out) + 1, Len(out'))
\* the step is a registry call for one session
IsCallFor(id) == events' = events + 1 /\ lastOp'.op # "none" /\ lastOp'.sid = id

\* C15: every envelope that a step queues or sends carries the sessionId of the
\* ClaudeProcess object that produced it, or, when the registry produced it, the id
\* that send was called with; what a registry call for a session produces carries
\* that session's id, what a chunk from a subprocess or its exit produces carries
\* the id of the session that owns the subprocess
C15_Tagged ==
  [][/\ Len(out') >= Len(out) /\ SubSeq(out', 1, Len(out)) = out
     /\ \A i \in 1..Len(NewEnvelopes) :
          LET e == NewEnvelopes[i] IN
            /\ e.sessionId \in SessionIds
            /\ IF e.obj = 0
               THEN IsSend /\ e.sessionId = lastOp'.sid
               ELSE e.obj \in 1..Len(instances') /\ e.sessionId = instances'[e.obj].sessionId
            /\ \A id \in SessionIds : IsCallFor(id) => e.sessionId = id
            /\ \A pid \in 1..Len(os) :
                 (os'[pid].out # os[pid].out \/ os'[pid].open # os[pid].open) =>
                   e.sessionId = instances[os[pid].owner].sessionId]_vars

\* C15 witness: both sessions have an object; a stream_event envelope of each
\* session, produced by two different objects, is queued or sent with its own tag
C15_Witness ==
  /\ processes["A"] # 0 /\ processes["B"] # 0
  /\ \E i, j \in 1..Len(out) :
       /\ out[i].sessionId = "A" /\ out[i].type = "stream_event"
       /\ out[j].sessionId = "B" /\ out[j].type = "stream_event"
       /\ out[i].obj # out[j].obj

\* ---- C16 ----
\* the token/cost info of session s: on screen when s is focused, else in the ref map
SessionInfoOf(s) == IF ui.currentSessionId = s THEN ui.sessionInfo ELSE refs[s].sessionInfo
\* the step handles a result event with a positive total_cost_usd
IsResultWithCost == IsHandling /\ hist'.last.type = "result" /\ hist'.last.cost > 0

\* C16: after a result event with total_cost_usd = c > 0 is handled for a session,
\* the cost counter of that session is c, whether the session is focused or not
C16_CostSet ==
  [][\A s \in SessionIds : (IsResultWithCost /\ hist'.last.sessionId = s) =>
       SessionInfoOf(s)'.totalCost = hist'.last.cost]_vars

\* the same for the result events that have a usage object
C16_CostSetWithUsage ==
  [][\A s \in SessionIds : (IsResultWithCost /\ hist'.last.usage /\ hist'.last.sessionId = s) =>
       SessionInfoOf(s)'.totalCost = hist'.last.cost]_vars

\* ---- C17 ----
\* the timers and the batcher of a ClaudeProcess object
Batcher(p) == <<p.deltaBuffer, p.deltaFlushTimer, p.lastDeltaEvent, p.flushes,
                p.heartbeatInterval, p.process>>
\* what a step that handles stdout of object n does with the line numbered k
LineProcessed(n, k) ==
  LET line == instances'[n].handled[k] IN
    IF IsStructuralLine(line)
    THEN \E i \in 1..Len(NewEnvelopes) :
           /\ NewEnvelopes[i].lines = {k} /\ NewEnvelopes[i].data = JsonParse(line)
           /\ NewEnvelopes[i].type = JsonParse(line).type
    ELSE IF IsDeltaLine(line) /\ JsonParse(line).pj # <<>>
    THEN \/ \E i \in 1..Len(NewEnvelopes) : k \in NewEnvelopes[i].lines
         \/ \E i \in 1..Len(instances'[n].deltaBuffer) : k \in instances'[n].deltaBuffer[i].lines
    ELSE \A i \in 1..Len(NewEnvelopes) : k \notin NewEnvelopes[i].lines

\* C17: a stdout line that is not JSON produces no envelope; when the lines that a
\* chunk completes are all of that kind nothing is queued and the delta buffer,
\* the timers and the bound subprocess stay as they were; a JSON line that
\* follows such a line in the chunk is forwarded (structural) or buffered or
\* flushed (fragment) as usual
C17_BadLineDropped ==
  [][\A n \in 1..Len(instances) :
       LET old == instances[n].handled
           new == instances'[n].handled
           added == (Len(old) + 1)..Len(new)
       IN (Len(instances') = Len(instances) /\ added # {}) =>
            /\ \A k \in added : LineProcessed(n, k)
            /\ (\A k \in added : ~JsonParses(new[k])) =>
                  /\ out' = out
                  /\ Batcher(instances'[n]) = Batcher(instances[n])]_vars

\* C17 witness: the subprocess wrote a fragment line, a line of plain output and a
\* content_block_stop line; the plain line left no envelope, the fragment was
\* flushed before the content_block_stop, which was forwarded
C17_Witness ==
  /\ Len(instances) = 1
  /\ instances[1].handled = << <<JsonDelta(0, <<"a">>)>>, <<Ch("x")>>, <<BlockStop(0)>> >>
  /\ Len(out) = 3
  /\ out[1].type = "status"
  /\ IsBatched(out[2]) /\ out[2].lines = {1} /\ out[2].data.pj = <<"a">>
  /\ out[3].lines = {3} /\ out[3].data = BlockStop(0)

\* ---- C18 ----
\* the step is a call of removeSession(id)
IsRemove(id) == events' = events + 1 /\ lastOp'.op = "remove" /\ lastOp'.sid = id

\* C18: after removeSession(id) the registry has no entry for id: isRunning(id) is
\* false, getCwd(id) is null, getAllStatus() does not list id, and the subprocess
\* that was bound to the object of id has been sent the termination signal; a
\* send(id, m) that comes next yields the error of a session without process and
\* writes nothing
C18_RemoveSession ==
  [][\A id \in SessionIds :
       /\ IsRemove(id) =>
            /\ processes'[id] = 0
            /\ ~MgrIsRunning(id)'
            /\ MgrGetCwd(id)' = NoCwd
            /\ \A st \in MgrGetAllStatus' : st.sessionId # id
            /\ (processes[id] # 0 /\ instances[processes[id]].process # 0) =>
                 os'[instances[processes[id]].process].signalled
       /\ (IsSend /\ lastOp'.sid = id /\ lastOp.op = "remove" /\ lastOp.sid = id) =>
            /\ os' = os /\ instances' = instances /\ immediateQ' = immediateQ
            /\ Len(channel') = Len(channel) + 1
            /\ channel'[Len(channel')].type = "error"
            /\ channel'[Len(channel')].sessionId = id
            /\ channel'[Len(channel')].error =
                 "No Claude process running for this session. Please restart."]_vars

\* C18 witness: start(A) spawned subprocess 1, then removeSession(A) ran: the
\* subprocess was signalled, A has no entry, the queries answer as for an unknown
\* id, the evicted object is torn down
C18_Witness ==
  /\ events = 2 /\ lastOp = Op("remove", "A", 0)
  /\ processes = [s \in SessionIds |-> 0]
  /\ Len(instances) = 1 /\ instances[1].sessionId = "A" /\ instances[1].currentCwd # NoCwd
  /\ Len(os) = 1 /\ os[1].signalled
  /\ TornDown(instances[1])
  /\ ~MgrIsRunning("A") /\ MgrGetCwd("A") = NoCwd /\ MgrGetAllStatus = {}

\* ---- C19 ----
\* the step is a call of stopAll()
IsStopAll == events' = events + 1 /\ lastOp'.op = "stopAll"

\* C19: after stopAll() every object that the registry tracked is stopped: its
\* bound subprocess has been sent the termination signal, it has no timer, no
\* buffered state and no bound subprocess; the registry is empty and isRunning(id)
\* is false for every id
C19_StopAll ==
  [][IsStopAll =>
       /\ \A id \in SessionIds : processes[id] # 0 =>
            LET n == processes[id] IN
              /\ TornDown(instances'[n])
              /\ instances[n].process # 0 => os'[instances[n].process].signalled
       /\ processes' = [id \in SessionIds |-> 0]
       /\ \A id \in SessionIds : ~MgrIsRunning(id)'
       /\ MgrGetAllStatus' = {}]_vars

\* C19 witness: A and B were started, a subprocess wrote a fragment line, then
\* stopAll() ran: both subprocesses are signalled, both objects torn down, the
\* fragment was flushed, the registry is empty
C19_Witness ==
  /\ events = 4 /\ lastOp.op = "stopAll"
  /\ processes = [id \in SessionIds |-> 0]
  /\ Len(instances) = 2 /\ TornDown(instances[1]) /\ TornDown(instances[2])
  /\ Len(os) = 2 /\ os[1].signalled /\ os[2].signalled
  /\ \E i \in 1..Len(out) : IsBatched(out[i])

\* ---- C20 ----
\* every fragment line that object p has handled was followed by a flush
NoFragmentSinceFlush(p) ==
  \A k \in 1..Len(p.handled) : IsDeltaLine(p.handled[k]) => p.flushOf[k] < p.flushes

\* C20: whenever no input_json_delta line has been handled since the last flush of
\* an object, flushDeltaBuffer() queues no envelope and changes no field
C20_FlushIdempotent ==
  \A n \in 1..Len(instances) :
    NoFragmentSinceFlush(instances[n]) => flushDeltaBuffer(Mach(n)) = Mach(n)

\* C20 witness: a fragment was buffered and flushed, its envelope is queued or sent,
\* and the flush timer still runs: its next tick flushes with nothing new
C20_Witness ==
  /\ Len(instances) = 1
  /\ instances[1].deltaFlushTimer /\ instances[1].flushes = 1
  /\ instances[1].handled = << <<JsonDelta(0, <<"a">>)>> >>
  /\ NoFragmentSinceFlush(instances[1])
  /\ \E i \in 1..Len(out) : IsBatched(out[i]) /\ out[i].data.pj = <<"a">>

\* C21: QuantumStreamRenderer.flush() passes all the buffered characters, in
\* order, to the render callback in one call and leaves the buffer empty; a
\* flush() of an empty buffer (such as a second flush() with no onData in
\* between) calls nothing.
C21_FlushAll ==
  [][(lastOp' = Op("flush", "A", 0) /\ Qsr.exists) =>
       /\ Qsr'.buffer = <<>>
       /\ Qsr'.rendered = IF Qsr.buffer # <<>>
                          THEN Append(Qsr.rendered, [text |-> Qsr.buffer, by |-> "flush"])
                          ELSE Qsr.rendered]_vars

\* C21 witness: flush() was the last call and passed two or more buffered
\* characters to the render callback in one call
C21_Witness ==
  /\ lastOp = Op("flush", "A", 0)
  /\ Qsr.buffer = <<>>
  /\ Qsr.rendered # <<>>
  /\ Qsr.rendered[Len(Qsr.rendered)].by = "flush"
  /\ Len(Qsr.rendered[Len(Qsr.rendered)].text) >= 2

\* C22: once destroy() was called, no frame of the render loop calls the render
\* callback, whatever is buffered then or arrives later.
C22_NoFrameAfterDestroy ==
  [][(Qsr.destroyed /\ Len(Qsr'.rendered) > Len(Qsr.rendered)) =>
       Qsr'.rendered[Len(Qsr'.rendered)].by # "render"]_vars

\* C22 witness: the renderer was destroyed and data arrived afterwards, which is
\* buffered
C22_Witness ==
  /\ Qsr.destroyed
  /\ lastOp = Op("onData", "A", 0)
  /\ Len(Qsr.buffer) >= 2

\* C23: the totalCost stored for a session never decreases from one save of the
\* session to the next, whatever costs the result events report.
C23_CostNeverDecreases ==
  \A s \in SessionIds :
    \A k \in 1..(Len(store.saved[s]) - 1) : store.saved[s][k] <= store.saved[s][k + 1]

\* ---- C24 ----
\* the step is the 'close' event of subprocess pid
IsCloseOf(pid) == pid \in 1..Len(os) /\ os[pid].open /\ ~os'[pid].open
\* the 'stopped' status envelopes that the step queues
NewStopped == {i \in 1..Len(NewEnvelopes) : NewEnvelopes[i].status = "stopped"}

\* C24: a ClaudeProcess becomes running only by a spawn in start() and stops
\* being running only when stop() is called or its current subprocess exits; the
\* exit of the current subprocess queues one 'stopped' status; the close event of
\* a subprocess that a later start() has superseded leaves the object running
\* and queues no 'stopped' status.
C24_RunningUntilStopOrExit ==
  [][\A n \in 1..Len(instances) :
       LET p == instances[n]
           p2 == instances'[n]
       IN /\ (~isRunning(p) /\ isRunning(p2)) =>
               /\ events' = events + 1 /\ lastOp'.op = "start"
               /\ Len(os') = Len(os) + 1 /\ p2.process = Len(os')
          /\ (isRunning(p) /\ ~isRunning(p2)) =>
               \/ events' = events + 1 /\ lastOp'.op # "none"
               \/ IsCloseOf(p.process)
          /\ (isRunning(p) /\ IsCloseOf(p.process)) =>
               ~isRunning(p2) /\ Cardinality(NewStopped) = 1
          /\ \A pid \in 1..Len(os) :
               (IsCloseOf(pid) /\ os[pid].owner = n /\ isRunning(p) /\ p.process # pid) =>
                 p2.process = p.process /\ NewStopped = {}]_vars

\* ---- C25 ----
\* the text that the renderer of block i of session s passes to its render
\* callback in the step: a batch of a frame, or the whole buffer when the
\* renderer is flushed and removed
Rendered(s, i) ==
  LET r == refs[s].quantumRenderer[i]
      r2 == refs'[s].quantumRenderer[i]
  IN IF r.exists /\ r.buffer # <<>> /\ ~r2.exists THEN r.buffer
     ELSE IF r.exists /\ r2.exists /\ Len(r2.rendered) > Len(r.rendered)
          THEN r2.rendered[Len(r2.rendered)].text
          ELSE <<>>

\* the step appends text to the content of block i of message id of session s
AppendedTo(s, id, i, text) ==
  /\ HasBlockOf(SessionMessages(s), id, i)
  /\ HasBlockOf(SessionMessages(s)', id, i)
  /\ BlockOf(SessionMessages(s)', id, i).content =
       BlockOf(SessionMessages(s), id, i).content \o text

\* C25: the text of the content_block_delta events with index i of the in-flight
\* message of a session is applied to the block that the most recent
\* content_block_start with index i created, and to no other block: whenever the
\* renderer of block i of session s renders text, the text is appended to that
\* block of the session's message list and the content of every other block of
\* every session stays as it is.
C25_AppliedToItsBlock ==
  [][\A s \in SessionIds : \A i \in BlockIndices : \A id \in 1..MaxHandled :
       (/\ Rendered(s, i) # <<>>
        /\ hist.track[s].phase # "none" /\ hist.track[s].index = i /\ hist.track[s].msg = id)
       => /\ AppendedTo(s, id, i, Rendered(s, i))
          /\ \A u \in SessionIds : \A id2 \in 1..MaxHandled : \A j \in BlockIndices :
               (<<u, id2, j>> # <<s, id, i>> /\ HasBlockOf(SessionMessages(u), id2, j))
               => AppendedTo(u, id2, j, <<>>)]_vars

\* the same for the steps of a run in which the user has selected no session
C25_NoSwitch ==
  [][hist'.requested = 0 =>
       \A s \in SessionIds : \A i \in BlockIndices : \A id \in 1..MaxHandled :
         (/\ Rendered(s, i) # <<>>
          /\ hist.track[s].phase # "none" /\ hist.track[s].index = i /\ hist.track[s].msg = id)
         => /\ AppendedTo(s, id, i, Rendered(s, i))
            /\ \A u \in SessionIds : \A id2 \in 1..MaxHandled : \A j \in BlockIndices :
                 (<<u, id2, j>> # <<s, id, i>> /\ HasBlockOf(SessionMessages(u), id2, j))
                 => AppendedTo(u, id2, j, <<>>)]_vars

\* ---- C26 ----
\* the step executes a session switch: a call of handleSelectSession, made by the
\* user or replayed from the pending queue, takes the lock
IsSwitchExecuted == Len(calls') = Len(calls) + 1

\* the entry of session s in the background maps is the state on screen
Snapshot(s) ==
  /\ refs[s].messages = ui.messages
  /\ refs[s].sessionInfo = ui.sessionInfo
  /\ refs[s].todos = ui.todos
  /\ refs[s].streaming = ui.isStreaming
  /\ refs[s].thinkingStatus = ui.thinkingStatus
  /\ refs[s].currentMessageId = ui.currentMessageIdRef
  /\ refs[s].currentBlockIndex = ui.currentBlockIndexRef

\* C26: every executed session switch, replayed ones included, first writes the
\* state of the session that is focused at that moment into the background maps
\* (the target's state is loaded by a later step of the call) and overwrites the
\* background state of no other session.
C26_SnapshotOfFocused ==
  [][IsSwitchExecuted =>
       \A f \in SessionIds :
         f = ui.currentSessionId =>
           /\ ui' = ui
           /\ Snapshot(f)'
           /\ \A s \in SessionIds \ {f} : refs'[s] = refs[s]]_vars

\* the same for the switches that the user's click executes directly
C26_DirectSwitch ==
  [][(IsSwitchExecuted /\ hist'.requested = hist.requested + 1) =>
       \A f \in SessionIds :
         f = ui.currentSessionId =>
           /\ ui' = ui
           /\ Snapshot(f)'
           /\ \A s \in SessionIds \ {f} : refs'[s] = refs[s]]_vars

\* ---- C27 ----
\* the step tears down the renderers of a session: a result event is handled, or
\* a call of handleStopGeneration finishes
IsTeardown ==
  \/ IsHandling /\ hist'.last.type = "result"
  \/ \E c \in 1..Len(calls) : calls[c].pc = "stop" /\ calls' = RemoveAt(calls, c)

\* C27: when a result event or a user stop tears down the renderers of a session,
\* the characters still buffered in the renderer of a block of the in-flight
\* message are appended to the content of that block; the teardown discards no
\* text.
C27_TeardownKeepsText ==
  [][\A s \in SessionIds : \A i \in BlockIndices : \A id \in 1..MaxHandled :
       (/\ IsTeardown
        /\ refs[s].quantumRenderer[i].exists
        /\ refs[s].quantumRenderer[i].buffer # <<>>
        /\ ~refs'[s].quantumRenderer[i].exists
        /\ refs[s].currentMessageId = id
        /\ HasBlockOf(SessionMessages(s), id, i))
       => AppendedTo(s, id, i, refs[s].quantumRenderer[i].buffer)]_vars

\* ---- C28 ----
\* the step handles the result event of session s
IsResult(s) == IsHandling /\ hist'.last.type = "result" /\ hist'.last.sessionId = s

\* session s has no in-flight message, is not streaming and holds no renderer, no
\* buffered tool JSON and no flush timer
TurnClosed(s) ==
  /\ refs[s].currentMessageId = NoId /\ refs[s].currentBlockIndex = 0
  /\ ~refs[s].streaming /\ refs[s].thinkingStatus = "idle"
  /\ \A i \in BlockIndices :
       /\ ~refs[s].quantumRenderer[i].exists
       /\ refs[s].toolJsonAccumulator[i] = <<>>
       /\ refs[s].lastFlushedLength[i] = 0
       /\ refs[s].toolNameByBlock[i] = ""
  /\ ~refs[s].toolJsonFlushTimer.active
  /\ ui.currentSessionId = s =>
       /\ ui.currentMessageIdRef = NoId /\ ui.currentBlockIndexRef = 0
       /\ ~ui.isStreaming /\ ui.thinkingStatus = "idle"

\* the step is a tick of a tool JSON flush timer or a frame of a renderer
IsTickOrFrame ==
  /\ hist' = hist /\ calls' = calls /\ timeouts' = timeouts
  /\ sessionSwitchQueueRef' = sessionSwitchQueueRef
  /\ ui'.currentSessionId = ui.currentSessionId

\* C28: when a result event has been handled for a session, the session has no
\* in-flight message, is not streaming, its thinking status is idle, it has no
\* renderer, its tool JSON maps are empty and its flush timer is stopped; and once
\* the result of its turn has been handled no timer tick and no renderer frame
\* changes its messages.
C28_ResultClosesTurn ==
  [][\A s \in SessionIds :
       /\ IsResult(s) => TurnClosed(s)'
       /\ (cli[s] = Len(Script(s)) /\ IsTickOrFrame) =>
            SessionMessages(s)' = SessionMessages(s)]_vars

\* the first part alone: the state of the session right after its result event
C28_AfterResult == [][\A s \in SessionIds : IsResult(s) => TurnClosed(s)']_vars

\* the second part in the runs in which the user has selected no session
C28_QuietWithoutSwitch ==
  [][hist.requested = 0 =>
       \A s \in SessionIds :
         (cli[s] = Len(Script(s)) /\ IsTickOrFrame) =>
           SessionMessages(s)' = SessionMessages(s)]_vars

\* ---- C29 ----
\* the step handles an assistant record of session s
IsAssistant(s) == IsHandling /\ hist'.last.type = "assistant" /\ hist'.last.sessionId = s

\* C29: an assistant record that is handled while its session has a message in
\* flight (a message_start was handled for the session and no result since) appends
\* nothing to the message list of the session.
C29_AssistantOnce ==
  [][\A s \in SessionIds :
       (IsAssistant(s) /\ hist.inflight[s]) => SessionMessages(s)' = SessionMessages(s)]_vars

\* the same in the runs in which the user never switches the session
C29_NoSwitch ==
  [][\A s \in SessionIds :
       (IsAssistant(s) /\ hist.inflight[s] /\ hist.requested = 0) =>
          SessionMessages(s)' = SessionMessages(s)]_vars

\* ---- C30 ----
\* the step is a tick of the delta flush timer of object n that flushes the buffer
IsTimerFlush(n) ==
  /\ n \in 1..Len(instances)
  /\ instances'[n].flushes = instances[n].flushes + 1
  /\ instances'[n].lineNo = instances[n].lineNo
  /\ instances'[n].deltaFlushTimer

\* all input_json_delta lines of object n for block index i so far
AllFragmentLines(n, i) ==
  {j \in 1..Len(instances[n].handled) :
     IsDeltaLine(instances[n].handled[j]) /\ BlockIndexOf(instances[n].handled[j]) = i}

\* the most recent input_json_delta event of object n
MostRecentDelta(n) ==
  JsonParse(instances[n].handled[Max({j \in 1..Len(instances[n].handled) :
                                        IsDeltaLine(instances[n].handled[j])})])

\* the envelopes that the step sends for block index i
NewFor(i) == {p \in 1..Len(NewEnvelopes) : NewEnvelopes[p].data.index = i}

\* C30 (as stated): a timer-driven flush emits, for every block index with buffered
\* content, exactly one batched event that carries all fragments received for the
\* block so far and is built from the most recent delta event, and it leaves the
\* buffer empty
C30_FullAccumulated ==
  [][\A n \in InstNos : IsTimerFlush(n) =>
       /\ \A k \in 1..Len(instances[n].deltaBuffer) :
            LET i == instances[n].deltaBuffer[k].index IN
              instances[n].deltaBuffer[k].json # <<>> =>
                /\ Cardinality(NewFor(i)) = 1
                /\ \A p \in NewFor(i) :
                     NewEnvelopes[p].data =
                       [MostRecentDelta(n) EXCEPT
                          !.index = i, !.pj = ConcatFragments(n, AllFragmentLines(n, i))]
       /\ instances'[n].deltaBuffer = <<>>]_vars

\* C30 (amended): a timer-driven flush emits, for every block index whose fragments
\* received since the previous flush have a non-empty concatenation, exactly one
\* batched stream_event of the session that carries that concatenation and is
\* built from the most recent delta event; it emits nothing else and leaves the
\* buffer empty
C30_FlushSinceLast ==
  [][\A n \in InstNos : IsTimerFlush(n) =>
       /\ \A i \in AllBlockIndices :
            LET F == FragmentLines(n, i, instances[n].flushes) IN
              IF ConcatFragments(n, F) # <<>>
              THEN /\ Cardinality(NewFor(i)) = 1
                   /\ \A p \in NewFor(i) :
                        /\ NewEnvelopes[p].data =
                             [MostRecentDelta(n) EXCEPT !.index = i,
                                                        !.pj = ConcatFragments(n, F)]
                        /\ NewEnvelopes[p].type = "stream_event"
                        /\ NewEnvelopes[p].sessionId = instances[n].sessionId
              ELSE NewFor(i) = {}
       /\ instances'[n].deltaBuffer = <<>>]_vars

\* C30 witness: the timer of an object has just flushed a block index for the
\* second time, and the second event carries only the later fragment
C30_Witness ==
  \E n \in 1..Len(instances) :
    /\ instances[n].deltaFlushTimer /\ instances[n].deltaBuffer = <<>>
    /\ instances[n].flushes = 2
    /\ lastOp = NoOp
    /\ immediateQ # <<>>
    /\ LET e == immediateQ[Len(immediateQ)] IN
         /\ IsBatched(e) /\ e.obj = n /\ e.flush = 2
         /\ \E p \in 1..Len(out) :
              /\ IsBatched(out[p]) /\ out[p].obj = n /\ out[p].flush = 1
              /\ out[p].data.index = e.data.index
              /\ out[p].data.pj # <<>> /\ e.data.pj # <<>>

\* ---- C31 ----
\* the step is a call of start for session id
IsStartOf(id) == events' = events + 1 /\ lastOp'.op = "start" /\ lastOp'.sid = id

\* the CLI is not installed and the object of session id, if there is one, has
\* never found it
CliMissing(id) ==
  ~cliInstalled /\ (processes[id] = 0 \/ ~instances[processes[id]].claudePath)

CliNotFound(e) == e.type = "error" /\ e.error = "Claude CLI not found"

\* C31: when the CLI cannot be located, start() sends exactly one error envelope
\* for the session and nothing else, spawns no subprocess, sends no 'started'
\* status, starts no heartbeat and leaves isRunning() false; and nothing but a call
\* of start sends that error or spawns a subprocess (no automatic retry).
C31_FailFast ==
  [][/\ \A id \in SessionIds : (IsStartOf(id) /\ CliMissing(id)) =>
          /\ Len(NewEnvelopes) = 1
          /\ CliNotFound(NewEnvelopes[1]) /\ NewEnvelopes[1].sessionId = id
          /\ os' = os
          /\ processes'[id] # 0
          /\ ~instances'[processes'[id]].heartbeatInterval
          /\ ~MgrIsRunning(id)'
     /\ ~(\E id \in SessionIds : IsStartOf(id)) =>
          /\ Len(os') = Len(os)
          /\ \A k \in 1..Len(NewEnvelopes) : ~CliNotFound(NewEnvelopes[k])]_vars

\* C31 witness: start was called twice while the CLI was missing; each call sent
\* its error and no subprocess exists
C31_Witness ==
  /\ ~cliInstalled /\ os = <<>>
  /\ lastOp.op = "start" /\ events = 2
  /\ Len(out) = 2
  /\ \A k \in 1..2 : CliNotFound(out[k]) /\ out[k].sessionId = lastOp.sid
  /\ ~MgrIsRunning(lastOp.sid)

\* ---- C32 ----
\* C32: the texts passed to the render callback so far, followed by what is still
\* buffered, are the characters passed to onData in arrival order; so right after
\* flush() the concatenation of the rendered texts is the concatenation of the
\* chunks.
C32_NothingLost ==
  Qsr.exists =>
    /\ ConcatTexts(Qsr.rendered) \o Qsr.buffer = Qsr.received
    /\ lastOp.op = "flush" => ConcatTexts(Qsr.rendered) = Qsr.received

\* C32 witness: a frame that was to render one character rendered three, up to the
\* space after the word; more data arrived and flush() rendered the rest
C32_Witness ==
  /\ lastOp.op = "flush"
  /\ Len(Qsr.rendered) = 2
  /\ Qsr.rendered[1].by = "render" /\ Qsr.rendered[1].text = <<"a", "a", " ">>
  /\ Qsr.rendered[2].by = "flush"
  /\ Qsr.received = <<"a", "a", " ", "a">>

\* a frame that asks for count characters gets more: the look-ahead extended the batch
C32_Extended ==
  /\ lastOp.op = "frame" /\ lastOp.pid = 1
  /\ Qsr.rendered # <<>>
  /\ Len(Qsr.rendered[Len(Qsr.rendered)].text) = 3

\* ---- C33 ----
\* the agent thread id recorded for session s: the state of the focused session,
\* the entry of the per-session map for a background session
RecordedThread(s) ==
  IF ui.currentSessionId = s THEN ui.claudeSessionId ELSE refs[s].claudeSessionId

\* C33: once a system/init event with session_id t has been handled for session s,
\* the thread id recorded for s is t, focused or not and across session switches,
\* until another init for s replaces it.
C33_ThreadKept ==
  \A s \in SessionIds : hist.thread[s] # NoThread => RecordedThread(s) = hist.thread[s]

\* the step runs the handleSelectSession that a finally block scheduled
IsReplay == Len(timeouts') < Len(timeouts)

\* every step but a replayed switch keeps the recorded thread ids right
C33_KeptWithoutReplay ==
  [][~IsReplay =>
       \A s \in SessionIds :
         (/\ hist'.thread[s] # NoThread
          /\ hist.thread[s] # NoThread => RecordedThread(s) = hist.thread[s])
           => RecordedThread(s)' = hist'.thread[s]]_vars

\* ---- C34 ----
\* the path of segments segs is the root or lies under it (names compared without
\* regard to case)
LowerSegment(seg) == IF seg = "U" THEN "u" ELSE seg
LowerSegments(segs) == [k \in 1..Len(segs) |-> LowerSegment(segs[k])]
IsUnder(segs, root) ==
  Len(root) <= Len(segs) /\ SubSeq(LowerSegments(segs), 1, Len(root)) = LowerSegments(root)

\* the allow-listed roots as paths
SafeRoots == {<<"u">>, <<"p">>}
UnderSafeRoot(segs) == \E root \in SafeRoots : IsUnder(segs, root)

\* C34: every subprocess is spawned in the resolved requested path if that lies
\* under an allow-listed root and in the home directory otherwise, so never in a
\* directory outside all allow-listed roots.
C34_CwdClamped ==
  \A pid \in 1..Len(os) :
    LET resolved == ResolveSegments(<<>>, os[pid].requested) IN
      os[pid].cwd = IF UnderSafeRoot(resolved) THEN PathString(resolved) ELSE HomeDir

\* the paths that only share a prefix of characters with a root aside, the
\* subprocess is spawned as C34 says
C34_ClampedUnlessPrefix ==
  \A pid \in 1..Len(os) :
    LET resolved == ResolveSegments(<<>>, os[pid].requested) IN
      (resolved = <<>> \/ Head(resolved) # "u2") =>
        os[pid].cwd = IF UnderSafeRoot(resolved) THEN PathString(resolved) ELSE HomeDir

\* ---- C35 ----
\* the step is the stdout 'data' handler of subprocess pid
IsStdoutOf(pid) ==
  /\ pid \in 1..Len(os) /\ Len(os') = Len(os)
  /\ Len(os'[pid].out) > Len(os[pid].out)

\* subprocess pid is not the one its object is bound to: stop() has signalled it,
\* or a restart has bound another
IsTerminated(pid) == instances[os[pid].owner].process # pid

\* C35: output that arrives from a subprocess after stop(), or after the restart
\* that replaced it, is not forwarded and not put into the line buffer, and arms
\* no timer: the object and the queue of envelopes are as before the chunk.
C35_StaleOutputDropped ==
  [][\A pid \in Pids :
       IsStdoutOf(pid) /\ IsTerminated(pid) =>
         /\ instances' = instances
         /\ immediateQ' = immediateQ
         /\ channel' = channel]_vars

\* ---- C36 ----
\* object n has a bound subprocess and is the registry's object of its session
IsBound(n) ==
  /\ instances[n].process # 0
  /\ processes[instances[n].sessionId] = n

\* C36: a heartbeat envelope is emitted only for a session whose object has a
\* bound subprocess: none after the subprocess has exited, after stop, or after
\* the session was removed from the registry.
C36_HeartbeatOnlyWhileBound ==
  [][\A i \in 1..Len(NewEnvelopes) :
       NewEnvelopes[i].type = "heartbeat" => IsBound(NewEnvelopes[i].obj)]_vars

\* the step is the 'close' event of a subprocess
IsClose == \E pid \in 1..Len(os) : Len(os') = Len(os) /\ os[pid].open /\ ~os'[pid].open

\* the heartbeat timer of an object is set only by a step that leaves the object
\* with a bound subprocess, and stop clears it: what is missing is the 'close' event
C36_ArmedWithSubprocess ==
  [][\A n \in 1..Len(instances') :
       /\ instances'[n].heartbeatInterval
       /\ (n \in 1..Len(instances) => ~instances[n].heartbeatInterval)
       => instances'[n].process # 0]_vars

\* ---- C37 ----
\* the numbers of the stdout lines of one object
LineNos == 1..(2 * MaxEvents)

\* the fragment of line ln of object n is in the delta buffer, in an entry whose
\* accumulated text is not empty
IsBuffered(n, ln) ==
  /\ n \in 1..Len(instances)
  /\ \E i \in 1..Len(instances[n].deltaBuffer) :
       ln \in instances[n].deltaBuffer[i].lines /\ instances[n].deltaBuffer[i].json # <<>>

\* a batched event with the fragment of line ln of object n has been sent
IsEmitted(n, ln) ==
  \E p \in 1..Len(channel) :
    IsBatched(channel[p]) /\ channel[p].obj = n /\ ln \in channel[p].lines

\* the flush timer of every object with a buffered fragment is set
TimerWhileBuffered ==
  \A n \in 1..Len(instances) :
    instances[n].deltaBuffer # <<>> => instances[n].deltaFlushTimer

\* C37: while the delta buffer of an object holds a fragment its flush timer is
\* set, and every buffered fragment is eventually sent in a batched event.
C37_BufferedIsFlushed ==
  /\ []TimerWhileBuffered
  /\ \A n \in InstNos : \A ln \in LineNos : IsBuffered(n, ln) ~> IsEmitted(n, ln)

\* two fragments were buffered and sent in batched events, the buffer is empty
C37_Witness ==
  /\ Len(instances) = 1
  /\ instances[1].deltaBuffer = <<>>
  /\ instances[1].deltaFlushTimer
  /\ IsEmitted(1, 1) /\ IsEmitted(1, 2)

\* ---- C38 ----
\* the step ends a session switch: its finally block has run
IsSwitchFinished ==
  /\ Len(calls') < Len(calls)
  /\ \E c \in 1..Len(calls) : calls[c].pc \in {"saveSession", "status"}

\* the lock is free after every finished switch, rejected or not, and a held lock
\* is released
C38_LockReleased ==
  /\ [][IsSwitchFinished => ~sessionSwitchLockRef']_vars
  /\ sessionSwitchLockRef ~> ~sessionSwitchLockRef

\* C38: the lock is released whenever a switch finishes, also a rejected one, and
\* no switch request stays blocked or queued forever: a queued request is taken
\* out of the queue and executed.
C38_NoRequestWaitsForever ==
  /\ [][IsSwitchFinished => ~sessionSwitchLockRef']_vars
  /\ sessionSwitchLockRef ~> ~sessionSwitchLockRef
  /\ \A t \in SessionIds :
       (sessionSwitchQueueRef = t) ~> (sessionSwitchQueueRef = NoSession)

\* ---- C39 ----
\* the step is a frame of the render loop that finds characters in the buffer
IsFrameWithData == lastOp'.op = "frame" /\ Qsr.rafId /\ Qsr.buffer # <<>>

\* the frame passes at least one and at most all buffered characters to onRender
FrameEmits ==
  /\ Len(Qsr'.buffer) < Len(Qsr.buffer)
  /\ Len(Qsr'.rendered) = Len(Qsr.rendered) + 1
  /\ Qsr'.rendered[Len(Qsr'.rendered)].text =
       SubSeq(Qsr.buffer, 1, Len(Qsr.buffer) - Len(Qsr'.buffer))

\* C39: every frame that finds characters in the buffer emits at least one and at
\* most all of them, in every mode and at every refresh rate, so the buffer
\* drains to empty without new data and without flush().
C39_EveryFrameDrains ==
  /\ [][IsFrameWithData => FrameEmits]_vars
  /\ Qsr.buffer # <<>> ~> Qsr.buffer = <<>>

\* at the refresh rates below 240 Hz every such frame emits
C39_DrainsBelow240 ==
  [][IsFrameWithData /\ Qsr.targetFPS < 240 => FrameEmits]_vars

\* at 240 and 360 Hz every such frame emits unless the mode is catchup
C39_DrainsUnlessCatchup ==
  [][IsFrameWithData /\ Qsr'.mode # "catchup" => FrameEmits]_vars

====
